---- MODULE Spec2Model ----
(***************************************************************************)
(* Model of the moderation result cache of multi-agent-chatter             *)
(* (pkg/filter/cache_manager.go).  The source file holds two               *)
(* implementations of CacheManager: the first (lines 1-375) stamps entries *)
(* with Expiry/LastAccess and keys its batch operations by raw content,    *)
(* the second (lines 377-805) stamps entries with Timestamp and keys every *)
(* operation by the SHA-256 key.  The variable impl says which one runs;   *)
(* definitions of the first carry the suffix _expiry.                      *)
(*                                                                         *)
(* Each exported method is one action: the methods run under the manager's *)
(* lock, so a call is one step.  Go's randomised map iteration order and   *)
(* the unstable sort.Slice are nondeterministic choices.  The elapsed-time *)
(* fields (totalTime, accessTime) are not modelled.                        *)
(*                                                                         *)
(* The later parts model ContentFilterService (content_filter.go, under    *)
(* SpecFilter), StandardizeCategories (ai_provider.go, SpecStandardize)    *)
(* and CacheMonitor (cache_monitor.go, SpecMonitor).  Each specification   *)
(* moves the variables of its own part and leaves the others as they are.  *)
(***************************************************************************)
EXTENDS Integers, Sequences, FiniteSets, TLC

\* ---------------------------------------------------------------- bounds
MaxEntries == 2      \* NewCacheManager(maxEntries, _)
TTL        == 1      \* NewCacheManager(_, ttl), in clock ticks
MaxTime    == 2      \* the clock stops here
MaxLookups == 2      \* cap on the number of keys looked up
MaxBatch   == 3      \* longest batch passed to BatchGet / BatchSet

\* ------------------------------------------------------ program constants
ContentTypeText  == 0
ContentTypeImage == 1

Nil   == <<"nil">>
Impls == {"expiry", "timestamp"}

\* The (contentType, content) pairs callers use: two share the content "a"
\* (byte 97) under different content types, the third has content "b".
Pairs ==
  {[ContentType |-> ContentTypeText,  Content |-> <<97>>],
   [ContentType |-> ContentTypeImage, Content |-> <<97>>],
   [ContentType |-> ContentTypeText,  Content |-> <<98>>]}

ContentTypes == {p.ContentType : p \in Pairs}
Contents     == {p.Content : p \in Pairs}

\* The value a caller caches for a pair is the moderation result computed for
\* that pair (key1 -> value1 in the tests); its declared size is 100 bytes.
ValueFor(p) == <<"value", p.ContentType, p.Content>>
SizeFor(p)  == 100

\* BatchSetItem
Item(p) == [ContentType |-> p.ContentType, Content |-> p.Content,
            Value |-> ValueFor(p), Size |-> SizeFor(p)]

Min(a, b) == IF a < b THEN a ELSE b
Max(a, b) == IF a > b THEN a ELSE b

Range(s) == {s[i] : i \in 1..Len(s)}

\* all sequences over S of length 1..n
SeqsUpTo(S, n) == UNION {[1..k -> S] : k \in 1..n}

\* all orderings of the finite set S (one possible map iteration order each)
Orderings(S) ==
  {f \in [1..Cardinality(S) -> S] : \A i, j \in 1..Cardinality(S) : f[i] = f[j] => i = j}

\* Go map write m[k] = e and delete(m, k)
Put(m, k, e) == [x \in (DOMAIN m) \cup {k} |-> IF x = k THEN e ELSE m[x]]
Del(m, k)    == [x \in (DOMAIN m) \ {k} |-> m[x]]

\* ------------------------------------------------------------------ keys
\* hex.EncodeToString: one lower-case hex digit, as its ASCII code
HexChar(n) == IF n < 10 THEN 48 + n ELSE 87 + n

\* The digest of a byte string.  SHA-256 is abstracted to a one-byte mixing
\* function that is injective on the inputs of this model (NoCollision).
RECURSIVE sha256(_, _)
sha256(bytes, h) ==
  IF bytes = <<>> THEN h ELSE sha256(Tail(bytes), (h * 31 + Head(bytes)) % 256)

\* generateKey: hex(sha256(byte(contentType) || content))
generateKey(contentType, content) ==
  LET sum == sha256(<<contentType>> \o content, 7)
  IN  <<HexChar(sum \div 16), HexChar(sum % 16)>>

KeyOf(p) == generateKey(p.ContentType, p.Content)

\* parseKey: first byte of the key as content type, the rest as content.
\* The *CacheKey result is a set: empty for nil, else the one CacheKey.
parseKey(key) ==
  IF Len(key) < 2 THEN {}
  ELSE {[ContentType |-> key[1], Content |-> Tail(key)]}

\* ----------------------------------------------------------------- state
VARIABLES
  impl,              \* which CacheManager implementation is running
  now,               \* the clock (time.Now())
  cache,             \* cm.cache / cm.data : key -> CacheEntry
  hits, misses,      \* cm.hits, cm.misses
  evictionCallback,  \* TRUE iff cm.evictionCallback # nil
  ret,               \* the call that has just returned, with its result
  cbLog,             \* eviction callback invocations of the last step
  removed,           \* entries deleted by eviction or sweep in the last step
  order,             \* history: cached keys, earliest insertion first
  lookups,           \* history: keys looked up since New or Clear
  hist,              \* history: the run of distinct insertions so far
  svc,               \* the ContentFilterService (content_filter.go)
  std,               \* one call of StandardizeCategories (ai_provider.go)
  mon,               \* the CacheMonitor and its goroutines (cache_monitor.go)
  prv,               \* one call of NewAIProvider (ai_provider.go)
  tc,                \* a TencentProvider and the calls on it (tencent_provider.go)
  rt                 \* goroutines in flight, with the lock they contend for

vars == <<impl, now, cache, hits, misses, evictionCallback, ret, cbLog,
          removed, order, lookups, hist, svc, std, mon, prv, tc, rt>>

\* what the cache manager's methods never touch
others == <<svc, std, mon, prv, tc, rt>>

\* CacheEntry: the second implementation uses Timestamp, the first Expiry and
\* LastAccess; one record shape holds both.
CacheEntry(v, sz, ts, exp, la) ==
  [Value |-> v, Size |-> sz, Timestamp |-> ts, Expiry |-> exp,
   LastAccess |-> la, AccessCount |-> 0]

NoHist == [ok |-> FALSE, setsOnly |-> FALSE, cb |-> FALSE, pairs |-> <<>>,
           last |-> 0, cbs |-> 0]

\* NewCacheManager: empty map, zero counters, no callback
NewCacheManager ==
  /\ now = 0
  /\ cache = <<>>
  /\ hits = 0
  /\ misses = 0
  /\ evictionCallback = FALSE
  /\ ret = [op |-> "New"]
  /\ cbLog = <<>>
  /\ removed = <<>>
  /\ order = <<>>
  /\ lookups = 0
  /\ hist = [ok |-> TRUE, setsOnly |-> TRUE, cb |-> TRUE, pairs |-> <<>>,
             last |-> 0, cbs |-> 0]

\* no filter service, no standardizer call and no monitor beside the cache
NoProvider == prv = Nil /\ tc = Nil
NoRuntime  == rt = Nil
CacheOnly  == svc = Nil /\ std = Nil /\ mon = Nil /\ NoProvider /\ NoRuntime

Init       == impl = "timestamp" /\ NewCacheManager /\ CacheOnly
InitExpiry == impl = "expiry" /\ NewCacheManager /\ CacheOnly
InitAll    == impl \in Impls /\ NewCacheManager /\ CacheOnly

\* ------------------------------------------------------------- eviction
\* An eviction state: the map, the deletions made and the callbacks fired.
Ev(m) == [m |-> m, rm |-> <<>>, cb |-> <<>>]

\* if cm.evictionCallback != nil { cm.evictionCallback(key, entry) }; delete
\* (of the entry handed to the callback the logs keep the Value)
EvictKey(s, k) ==
  LET item == [key |-> k, value |-> s.m[k].Value]
  IN  [m  |-> Del(s.m, k),
       rm |-> Append(s.rm, item),
       cb |-> IF evictionCallback THEN Append(s.cb, item) ELSE s.cb]

RECURSIVE EvictSeq(_, _)
EvictSeq(s, ks) ==
  IF ks = <<>> THEN s ELSE EvictSeq(EvictKey(s, Head(ks)), Tail(ks))

\* evictOldest with the comparison reversed: the newest entry goes
evictOldest_newest(s) ==
  IF DOMAIN s.m = {} THEN {s}
  ELSE {EvictKey(s, k) :
          k \in {x \in DOMAIN s.m :
                   \A y \in DOMAIN s.m : ~(s.m[y].Timestamp > s.m[x].Timestamp)}}

\* evictOldest (second implementation): the entry with the smallest
\* Timestamp; among equal timestamps the first in map iteration order.
evictOldest(s) ==
  IF DOMAIN s.m = {} THEN {s}
  ELSE {EvictKey(s, k) :
          k \in {x \in DOMAIN s.m :
                   \A y \in DOMAIN s.m : ~(s.m[y].Timestamp < s.m[x].Timestamp)}}

\* evictOldest (first implementation): smallest LastAccess, found with a
\* first flag; nothing is evicted when the key found is the empty string.
evictOldest_expiry(s) ==
  IF DOMAIN s.m = {} THEN {s}
  ELSE {IF k # <<>> THEN EvictKey(s, k) ELSE s :
          k \in {x \in DOMAIN s.m :
                   \A y \in DOMAIN s.m : ~(s.m[y].LastAccess < s.m[x].LastAccess)}}

\* evictBatch: sort all entries by Timestamp (sort.Slice, not stable, over a
\* map iteration) and evict the first count of them.
evictBatch(s, count) ==
  LET sorted == {ord \in Orderings(DOMAIN s.m) :
                   \A i, j \in 1..Len(ord) :
                     i < j => ~(s.m[ord[j]].Timestamp < s.m[ord[i]].Timestamp)}
  IN  {EvictSeq(s, SubSeq(ord, 1, Min(count, Len(ord)))) : ord \in sorted}

\* ------------------------------------------------------ history helpers
\* insertion order after inserting key k
Reinsert(seq, k) == Append(SelectSeq(seq, LAMBDA x : x # k), k)

RECURSIVE ReinsertAll(_, _)
ReinsertAll(seq, ks) ==
  IF ks = <<>> THEN seq ELSE ReinsertAll(Reinsert(seq, Head(ks)), Tail(ks))

Survivors(seq, m) == SelectSeq(seq, LAMBDA k : k \in DOMAIN m)

PairOf(item) == [ContentType |-> item.ContentType, Content |-> item.Content]

PairsOf(items) == [i \in 1..Len(items) |-> PairOf(items[i])]

\* the run of insertions of pairwise distinct pairs, not disturbed by Clear
\* or by the sweep; setsOnly: all made by Set at strictly increasing times;
\* cb: the eviction callback was registered before the first insertion;
\* cbs: the callback invocations during the run.
HistInsert(ps, bySet, ncb) ==
  LET fresh == /\ \A i \in 1..Len(ps) : ps[i] \notin Range(hist.pairs)
               /\ \A i, j \in 1..Len(ps) : ps[i] = ps[j] => i = j
  IN  IF hist.ok /\ fresh
      THEN [ok       |-> TRUE,
            setsOnly |-> hist.setsOnly /\ bySet
                           /\ (hist.pairs = <<>> \/ now > hist.last),
            cb       |-> hist.cb /\ evictionCallback,
            pairs    |-> hist.pairs \o ps,
            last     |-> now,
            cbs      |-> hist.cbs + ncb]
      ELSE NoHist

\* ------------------------------------------------------------------ stale
\* second implementation: time.Since(entry.Timestamp) > cm.ttl
Expired(entry) == now - entry.Timestamp > TTL

\* first implementation, Get and sweep: time.Since(entry.Expiry) > cm.ttl
Expired_expiry(entry) == now - entry.Expiry > TTL

\* ------------------------------------- second implementation (lines 377-805)
\* Set
Set(t, c, v, sz) ==
  /\ impl = "timestamp"
  /\ LET key  == generateKey(t, c)
         outs == IF Cardinality(DOMAIN cache) >= MaxEntries
                 THEN evictOldest(Ev(cache)) ELSE {Ev(cache)}
     IN  \E o \in outs :
           /\ cache' = Put(o.m, key, CacheEntry(v, sz, now, 0, 0))
           /\ removed' = o.rm
           /\ cbLog' = o.cb
           /\ order' = Reinsert(Survivors(order, o.m), key)
           /\ hist' = HistInsert(<<[ContentType |-> t, Content |-> c]>>, TRUE,
                                 Len(o.cb))
  /\ ret' = [op |-> "Set", item |-> [ContentType |-> t, Content |-> c]]
  /\ UNCHANGED <<others, impl, now, hits, misses, evictionCallback, lookups>>

\* The result of Get: a stale entry is reported as (nil, false).
GetResult(entry, ok, stale) ==
  IF ok /\ stale THEN [value |-> Nil, found |-> FALSE]
  ELSE [value |-> IF ok THEN entry.Value ELSE Nil, found |-> ok]

\* The counters after one Get: hit when the key is in the map, miss otherwise.
GetCount(h, m, ok) == IF ok THEN <<h + 1, m>> ELSE <<h, m + 1>>

\* Get
Get(t, c) ==
  /\ impl = "timestamp"
  /\ lookups < MaxLookups
  /\ LET key == generateKey(t, c)
         ok  == key \in DOMAIN cache
         res == GetResult(IF ok THEN cache[key] ELSE Nil, ok,
                          ok /\ Expired(cache[key]))
     IN  /\ hits' = GetCount(hits, misses, ok)[1]
         /\ misses' = GetCount(hits, misses, ok)[2]
         /\ cache' = IF ok THEN [cache EXCEPT ![key].AccessCount = @ + 1]
                     ELSE cache
         /\ ret' = [op |-> "Get", item |-> [ContentType |-> t, Content |-> c],
                    value |-> res.value, found |-> res.found]
  /\ lookups' = lookups + 1
  /\ cbLog' = <<>>
  /\ removed' = <<>>
  /\ UNCHANGED <<others, impl, now, evictionCallback, order, hist>>

\* One iteration of BatchGet's loop; b holds the map, the counters, the
\* result map (keyed by item.Content) and the number of hits so far.
BatchGetStep(b, item) ==
  LET key == generateKey(item.ContentType, item.Content)
      ok  == key \in DOMAIN b.m
  IN  IF ~ok \/ Expired(b.m[key])
      THEN [b EXCEPT !.misses = @ + 1,
                     !.results = Put(@, item.Content,
                                     [Found |-> FALSE, Value |-> Nil])]
      ELSE [b EXCEPT !.hits = @ + 1,
                     !.m = [@ EXCEPT ![key].AccessCount = @ + 1],
                     !.results = Put(@, item.Content,
                                     [Found |-> TRUE, Value |-> b.m[key].Value]),
                     !.nfound = @ + 1]

RECURSIVE BatchGetLoop(_, _)
BatchGetLoop(b, items) ==
  IF items = <<>> THEN b
  ELSE BatchGetLoop(BatchGetStep(b, Head(items)), Tail(items))

\* BatchGet
BatchGet(items) ==
  /\ impl = "timestamp"
  /\ lookups + Len(items) <= MaxLookups
  /\ LET b == BatchGetLoop([m |-> cache, hits |-> hits, misses |-> misses,
                            results |-> <<>>, nfound |-> 0], items)
     IN  /\ cache' = b.m
         /\ hits' = b.hits
         /\ misses' = b.misses
         /\ ret' = [op |-> "BatchGet", items |-> items, results |-> b.results,
                    nfound |-> b.nfound]
  /\ lookups' = lookups + Len(items)
  /\ cbLog' = <<>>
  /\ removed' = <<>>
  /\ UNCHANGED <<others, impl, now, evictionCallback, order, hist>>

\* the batch loop of BatchSet: every item is written with Timestamp now
RECURSIVE BatchPut(_, _)
BatchPut(m, items) ==
  IF items = <<>> THEN m
  ELSE BatchPut(Put(m, generateKey(Head(items).ContentType, Head(items).Content),
                    CacheEntry(Head(items).Value, Head(items).Size, now, 0, 0)),
                Tail(items))

\* BatchSet
BatchSet(items) ==
  /\ impl = "timestamp"
  /\ LET needToEvict == Cardinality(DOMAIN cache) + Len(items) - MaxEntries
         outs == IF needToEvict > 0 THEN evictBatch(Ev(cache), needToEvict)
                 ELSE {Ev(cache)}
     IN  \E o \in outs :
           /\ cache' = BatchPut(o.m, items)
           /\ removed' = o.rm
           /\ cbLog' = o.cb
           /\ order' = ReinsertAll(Survivors(order, o.m),
                                   [i \in 1..Len(items) |->
                                      generateKey(items[i].ContentType,
                                                  items[i].Content)])
           /\ hist' = HistInsert(PairsOf(items), FALSE, Len(o.cb))
  /\ ret' = [op |-> "BatchSet", items |-> PairsOf(items)]
  /\ UNCHANGED <<others, impl, now, hits, misses, evictionCallback, lookups>>

\* One pass of the sweep: the entries whose stale test holds are deleted, in
\* map iteration order, with the callback fired for each.
Sweep(stale) ==
  \E ord \in Orderings({k \in DOMAIN cache : stale[k]}) :
    LET o == EvictSeq(Ev(cache), ord)
    IN  /\ cache' = o.m
        /\ removed' = o.rm
        /\ cbLog' = o.cb
        /\ order' = Survivors(order, o.m)
        /\ hist' = IF o.rm = <<>> THEN hist ELSE NoHist
        /\ ret' = [op |-> "cleanupExpired"]
        /\ UNCHANGED <<others, impl, now, hits, misses, evictionCallback, lookups>>

\* cleanupExpired, one tick of its ticker
cleanupExpired ==
  /\ impl = "timestamp"
  /\ Sweep([k \in DOMAIN cache |-> Expired(cache[k])])

\* -------------------------------------- first implementation (lines 1-375)
\* Set
Set_expiry(t, c, v, sz) ==
  /\ impl = "expiry"
  /\ LET key  == generateKey(t, c)
         outs == IF Cardinality(DOMAIN cache) >= MaxEntries
                 THEN evictOldest_expiry(Ev(cache)) ELSE {Ev(cache)}
     IN  \E o \in outs :
           /\ cache' = Put(o.m, key, CacheEntry(v, sz, 0, now + TTL, now))
           /\ removed' = o.rm
           /\ cbLog' = o.cb
           /\ order' = Reinsert(Survivors(order, o.m), key)
           /\ hist' = HistInsert(<<[ContentType |-> t, Content |-> c]>>, TRUE,
                                 Len(o.cb))
  /\ ret' = [op |-> "Set", item |-> [ContentType |-> t, Content |-> c]]
  /\ UNCHANGED <<others, impl, now, hits, misses, evictionCallback, lookups>>

\* Get
Get_expiry(t, c) ==
  /\ impl = "expiry"
  /\ lookups < MaxLookups
  /\ LET key == generateKey(t, c)
         ok  == key \in DOMAIN cache
         res == GetResult(IF ok THEN cache[key] ELSE Nil, ok,
                          ok /\ Expired_expiry(cache[key]))
     IN  /\ hits' = GetCount(hits, misses, ok)[1]
         /\ misses' = GetCount(hits, misses, ok)[2]
         /\ cache' = IF ok THEN [cache EXCEPT ![key].AccessCount = @ + 1]
                     ELSE cache
         /\ ret' = [op |-> "Get", item |-> [ContentType |-> t, Content |-> c],
                    value |-> res.value, found |-> res.found]
  /\ lookups' = lookups + 1
  /\ cbLog' = <<>>
  /\ removed' = <<>>
  /\ UNCHANGED <<others, impl, now, evictionCallback, order, hist>>

\* One iteration of BatchGet's loop: the map is read under item.Content and
\* the entry counts as found while time.Now().Before(entry.Expiry).
BatchGetStep_expiry(b, item) ==
  LET key == item.Content
  IN  IF key \in DOMAIN b.m /\ now < b.m[key].Expiry
      THEN [b EXCEPT !.results = Put(@, key, [Found |-> TRUE,
                                              Value |-> b.m[key].Value]),
                     !.nfound = @ + 1]
      ELSE [b EXCEPT !.results = Put(@, key, [Found |-> FALSE, Value |-> Nil])]

RECURSIVE BatchGetLoop_expiry(_, _)
BatchGetLoop_expiry(b, items) ==
  IF items = <<>> THEN b
  ELSE BatchGetLoop_expiry(BatchGetStep_expiry(b, Head(items)), Tail(items))

\* BatchGet
BatchGet_expiry(items) ==
  /\ impl = "expiry"
  /\ lookups + Len(items) <= MaxLookups
  /\ LET b == BatchGetLoop_expiry([m |-> cache, hits |-> hits,
                                   misses |-> misses, results |-> <<>>,
                                   nfound |-> 0], items)
     IN  ret' = [op |-> "BatchGet", items |-> items, results |-> b.results,
                 nfound |-> b.nfound]
  /\ lookups' = lookups + Len(items)
  /\ cbLog' = <<>>
  /\ removed' = <<>>
  /\ UNCHANGED <<others, impl, now, cache, hits, misses, evictionCallback, order, hist>>

\* The loop of BatchSet over a set S of eviction states (one per choice the
\* evictions so far could make): evict the oldest when full, then write the
\* entry under item.Content.
RECURSIVE BatchSetLoop_expiry(_, _)
BatchSetLoop_expiry(S, items) ==
  IF items = <<>> THEN S
  ELSE LET item == Head(items)
           entry == CacheEntry(item.Value, item.Size, 0, now + TTL, now)
           step(s) == IF Cardinality(DOMAIN s.m) >= MaxEntries
                      THEN evictOldest_expiry(s) ELSE {s}
       IN  BatchSetLoop_expiry(
             {[o EXCEPT !.m = Put(@, item.Content, entry)] :
                o \in UNION {step(s) : s \in S}},
             Tail(items))

\* BatchSet
BatchSet_expiry(items) ==
  /\ impl = "expiry"
  /\ \E o \in BatchSetLoop_expiry({Ev(cache)}, items) :
       /\ cache' = o.m
       /\ removed' = o.rm
       /\ cbLog' = o.cb
       /\ order' = SelectSeq(ReinsertAll(order, [i \in 1..Len(items) |->
                                                   items[i].Content]),
                             LAMBDA k : k \in DOMAIN o.m)
       /\ hist' = HistInsert(PairsOf(items), FALSE, Len(o.cb))
  /\ ret' = [op |-> "BatchSet", items |-> PairsOf(items)]
  /\ UNCHANGED <<others, impl, now, hits, misses, evictionCallback, lookups>>

\* cleanupExpired, one tick of its ticker
cleanupExpired_expiry ==
  /\ impl = "expiry"
  /\ Sweep([k \in DOMAIN cache |-> Expired_expiry(cache[k])])

\* Clear (the same in both implementations)
Clear ==
  /\ cache' = <<>>
  /\ hits' = 0
  /\ misses' = 0
  /\ ret' = [op |-> "Clear"]
  /\ cbLog' = <<>>
  /\ removed' = <<>>
  /\ order' = <<>>
  /\ lookups' = 0
  /\ hist' = NoHist
  /\ UNCHANGED <<others, impl, now, evictionCallback>>

\* SetEvictionCallback (the same in both implementations)
SetEvictionCallback ==
  /\ ~evictionCallback
  /\ evictionCallback' = TRUE
  /\ ret' = [op |-> "SetEvictionCallback"]
  /\ cbLog' = <<>>
  /\ removed' = <<>>
  /\ UNCHANGED <<others, impl, now, cache, hits, misses, order, lookups, hist>>

\* the clock advances
Tick ==
  /\ now < MaxTime
  /\ now' = now + 1
  /\ ret' = [op |-> "none"]
  /\ cbLog' = <<>>
  /\ removed' = <<>>
  /\ UNCHANGED <<others, impl, cache, hits, misses, evictionCallback, order, lookups,
                 hist>>

\* ------------------------------------------------------------- GetStats
\* a float64 ratio, kept as numerator and denominator (0/1 when never set)
Ratio(n, d) == IF d > 0 THEN [num |-> n, den |-> d] ELSE [num |-> 0, den |-> 1]

RECURSIVE SumSize(_, _)
SumSize(m, ks) ==
  IF ks = {} THEN 0
  ELSE LET k == CHOOSE x \in ks : TRUE IN m[k].Size + SumSize(m, ks \ {k})

\* GetStats (the same in both implementations).  The per-type entries are
\* filed under parseKey(key).ContentType; typeHits and typeMisses are local
\* maps that nothing writes, so the per-type hit rate is never set.
\* ExpiredEntries is never assigned.
GetStats ==
  LET TypeOf(k) == (CHOOSE ck \in parseKey(k) : TRUE).ContentType
      parsed   == {k \in DOMAIN cache : parseKey(k) # {}}
      types    == {TypeOf(k) : k \in parsed}
      typeHits == [ty \in types |-> 0]
      typeMisses == [ty \in types |-> 0]
  IN  [Size           |-> Cardinality(DOMAIN cache),
       MemoryUsage    |-> SumSize(cache, DOMAIN cache),
       HitRate        |-> Ratio(hits, hits + misses),
       ExpiredEntries |-> 0,
       TypeStats      |->
         [ty \in types |->
            [Count   |-> Cardinality({k \in parsed : TypeOf(k) = ty}),
             HitRate |-> Ratio(typeHits[ty], typeHits[ty] + typeMisses[ty])]]]

\* stats.TypeStats[t] as Go reads a map: the zero value when t is absent
TypeStatsOf(stats, t) ==
  IF t \in DOMAIN stats.TypeStats THEN stats.TypeStats[t]
  ELSE [Count |-> 0, HitRate |-> Ratio(0, 0)]

\* The batches callers pass: up to MaxBatch distinct pairs, listed in the
\* order of their keys, or one pair listed twice.
Before(k1, k2) == k1[1] < k2[1] \/ (k1[1] = k2[1] /\ k1[2] < k2[2])

Batches ==
  {b \in SeqsUpTo(Pairs, MaxBatch) :
     \A i, j \in 1..Len(b) : i < j => Before(KeyOf(b[i]), KeyOf(b[j]))}
  \cup {<<p, p>> : p \in Pairs}

Next ==
  \/ \E p \in Pairs : Set(p.ContentType, p.Content, ValueFor(p), SizeFor(p))
  \/ \E p \in Pairs : Get(p.ContentType, p.Content)
  \/ \E ps \in Batches : BatchGet(ps)
  \/ \E ps \in Batches : BatchSet([i \in 1..Len(ps) |-> Item(ps[i])])
  \/ cleanupExpired
  \/ Clear
  \/ SetEvictionCallback
  \/ Tick

NextExpiry ==
  \/ \E p \in Pairs :
       Set_expiry(p.ContentType, p.Content, ValueFor(p), SizeFor(p))
  \/ \E p \in Pairs : Get_expiry(p.ContentType, p.Content)
  \/ \E ps \in Batches : BatchGet_expiry(ps)
  \/ \E ps \in Batches : BatchSet_expiry([i \in 1..Len(ps) |-> Item(ps[i])])
  \/ cleanupExpired_expiry
  \/ Clear
  \/ SetEvictionCallback
  \/ Tick

\* the second implementation
Spec == Init /\ [][Next]_vars

\* the first implementation
SpecExpiry == InitExpiry /\ [][NextExpiry]_vars

\* Sequential Set calls with Get calls in between, on either implementation
NextFifo ==
  \/ \E p \in Pairs : Set(p.ContentType, p.Content, ValueFor(p), SizeFor(p))
  \/ \E p \in Pairs : Get(p.ContentType, p.Content)
  \/ \E p \in Pairs :
       Set_expiry(p.ContentType, p.Content, ValueFor(p), SizeFor(p))
  \/ \E p \in Pairs : Get_expiry(p.ContentType, p.Content)
  \/ SetEvictionCallback
  \/ Tick

SpecFifo == InitAll /\ [][NextFifo]_vars

\* generateKey is injective on the pairs of the model
NoCollision == \A p, q \in Pairs : KeyOf(p) = KeyOf(q) => p = q

\* ---------------------------------------------------------------- claims
Size == Cardinality(DOMAIN cache)

\* the time the entry was written: Timestamp in the second implementation,
\* LastAccess (set only by Set and BatchSet) in the first
InsertedAt(entry) ==
  IF impl = "timestamp" THEN entry.Timestamp ELSE entry.LastAccess

\* C1: when Set or BatchSet has returned, the cache holds at most maxEntries
\* entries.
C1_SizeAtMostMaxEntries ==
  ret.op \in {"Set", "BatchSet"} => Size <= MaxEntries

\* the keys of the last n pairs of a sequence of pairs
LastKeys(ps, n) == {KeyOf(ps[i]) : i \in (Len(ps) - Min(n, Len(ps)) + 1)..Len(ps)}

\* C2: after sequential Set calls of pairwise distinct pairs at strictly
\* increasing times, with any Get calls in between, the cache holds exactly
\* the maxEntries most recently inserted pairs (all of them while they fit).
C2_FifoByInsertion ==
  (hist.ok /\ hist.setsOnly) => DOMAIN cache = LastKeys(hist.pairs, MaxEntries)

\* C2 witness: more than maxEntries distinct pairs were Set at increasing
\* times, a Get in between hit, and the oldest pair is gone.
C2_Witness ==
  /\ hist.ok /\ hist.setsOnly
  /\ Len(hist.pairs) > MaxEntries
  /\ hits > 0
  /\ KeyOf(hist.pairs[1]) \notin DOMAIN cache
  /\ Size = MaxEntries

\* C3: Get reports found only for a cached entry not older than the TTL, and
\* reports (nil, false) for an entry older than the TTL, in either
\* implementation.
C3_GetServesOnlyFresh ==
  ret.op = "Get" =>
    LET key == KeyOf(ret.item)
    IN  /\ ret.found =>
             /\ key \in DOMAIN cache
             /\ now - InsertedAt(cache[key]) <= TTL
             /\ ret.value = cache[key].Value
        /\ (key \in DOMAIN cache /\ now - InsertedAt(cache[key]) > TTL) =>
             (~ret.found /\ ret.value = Nil)

\* C4: a BatchSet made when len(cache) + len(items) > maxEntries evicts
\* exactly len(cache) + len(items) - maxEntries entries.
C4_BatchSetEvictsExactly ==
  [][(ret'.op = "BatchSet" /\ Size + Len(ret'.items) > MaxEntries)
       => Len(removed') = Size + Len(ret'.items) - MaxEntries]_vars

\* C5: every key looked up by Get or BatchGet adds one to the hit counter
\* when it is reported found and one to the miss counter when it is not, so
\* hits + misses is the number of keys looked up since New or Clear.
C5_HitIffFound ==
  [][/\ ret'.op = "Get" =>
          IF ret'.found THEN hits' = hits + 1 /\ misses' = misses
          ELSE hits' = hits /\ misses' = misses + 1
     /\ ret'.op = "BatchGet" =>
          /\ hits' = hits + ret'.nfound
          /\ misses' = misses + Len(ret'.items) - ret'.nfound
     /\ hits' + misses' = lookups']_vars

\* C6: a found result reported for (t, c) by Get or BatchGet is the value
\* stored for exactly (t, c).
C6_ValueOfSamePair ==
  /\ ret.op = "Get" => (ret.found => ret.value = ValueFor(ret.item))
  /\ ret.op = "BatchGet" =>
       \A i \in 1..Len(ret.items) :
         LET r == ret.results[ret.items[i].Content]
         IN  r.Found => r.Value = ValueFor(ret.items[i])

\* the keys the call that has just returned wrote
Written ==
  IF ret.op = "Set" THEN {KeyOf(ret.item)}
  ELSE IF ret.op = "BatchSet" THEN {KeyOf(ret.items[i]) : i \in 1..Len(ret.items)}
  ELSE {}

\* C7: with a callback registered, the callback invocations of a call are
\* exactly the entries it removed by eviction or sweep, none of them for an
\* entry that stays cached; and inserting maxEntries + k distinct entries
\* yields exactly k invocations.
C7_OneCallbackPerEviction ==
  /\ evictionCallback => cbLog = removed
  /\ \A i \in 1..Len(cbLog) :
       cbLog[i].key \notin DOMAIN cache \/ cbLog[i].key \in Written
  /\ (hist.ok /\ hist.cb) =>
       hist.cbs = Max(0, Len(hist.pairs) - MaxEntries)

\* C8: when a BatchSet overflows capacity, every item of the batch is cached
\* afterwards and no entry that stays was written before an evicted one;
\* when all cached entries come from one earlier BatchSet and the new items
\* are not cached yet, the evicted ones are those that batch listed first.
C8_BatchSetEvictsEarliest ==
  [][(ret'.op = "BatchSet" /\ Size + Len(ret'.items) > MaxEntries)
       => LET gone == {removed'[j].key : j \in 1..Len(removed')}
          IN  /\ \A i \in 1..Len(ret'.items) :
                   KeyOf(ret'.items[i]) \in DOMAIN cache'
              /\ gone \subseteq DOMAIN cache
              /\ \A k \in gone, x \in DOMAIN cache \ gone :
                   cache[k].Timestamp <= cache[x].Timestamp
              /\ (/\ ret.op = "BatchSet" /\ DOMAIN cache = Written
                  /\ \A i \in 1..Len(ret'.items) :
                       KeyOf(ret'.items[i]) \notin DOMAIN cache)
                   => gone = {order[j] : j \in 1..Len(removed')}]_vars

\* a non-stale entry for the pair is cached (second implementation)
Fresh(p) ==
  KeyOf(p) \in DOMAIN cache /\ now - cache[KeyOf(p)].Timestamp <= TTL

\* C9: BatchGet returns one result per requested item, Found with the stored
\* value iff a non-stale entry for the item is cached, otherwise not Found
\* with a nil value.
C9_BatchGetResultPerItem ==
  ret.op = "BatchGet" =>
    /\ Cardinality(DOMAIN ret.results) = Cardinality(Range(ret.items))
    /\ \A i \in 1..Len(ret.items) :
         LET p == ret.items[i]
             r == ret.results[p.Content]
         IN  /\ r.Found <=> Fresh(p)
             /\ r.Found => r.Value = cache[KeyOf(p)].Value
             /\ ~r.Found => r.Value = Nil

\* C10: GetStats().TypeStats[t].Count is the number of cached entries of
\* content type t, and TypeStats[t].HitRate is positive once a lookup of type
\* t has hit.
C10_TypeStatsPerContentType ==
  \A t \in ContentTypes :
    /\ TypeStatsOf(GetStats, t).Count
         = Cardinality({p \in Pairs : p.ContentType = t /\ KeyOf(p) \in DOMAIN cache})
    /\ (ret.op = "Get" /\ ret.found /\ ret.item.ContentType = t)
         => TypeStatsOf(GetStats, t).HitRate.num > 0

\* =========================================================================
\* ContentFilterService (pkg/filter/content_filter.go)
\* =========================================================================
\* Strings are sequences of characters.  Scores are in hundredths (0.8 is
\* 80).  A map[string]bool is the set of its <<key, value>> pairs.  A pointer
\* result is a set: empty for nil, else the one record.
MaxContentLen == 2   \* longest content passed to Filter
MaxPatterns   == 2   \* cap on the length of the pattern list

LevelLow    == 1
LevelMedium == 2
LevelHigh   == 3
Levels      == {0, LevelLow, LevelMedium, LevelHigh}   \* 0: not a known level

TextContent  == "text"
ImageContent == "image"
FilterTypes  == {TextContent, ImageContent, "file"}    \* "file": unsupported

Chars == {"a", "b", "B"}

\* the contents callers submit
Texts == {<<>>} \cup SeqsUpTo(Chars, MaxContentLen)

\* the word lists callers load: "b", "B", "Ba", "ab" alone, and "Ba","ab"
WordLists ==
  {<<(<<"b">>)>>, <<(<<"B">>)>>, <<(<<"B", "a">>)>>, <<(<<"a", "b">>)>>,
   <<(<<"B", "a">>), (<<"a", "b">>)>>}

\* the patterns callers add: B, .b and the unbalanced (a
PatternInputs == {<<"B">>, <<".", "b">>, <<"(", "a">>}

\* the scores the moderation endpoint may report, around each threshold
AnalyzerScores == {50, 51, 70, 71, 80, 81, 90, 91}

\* strings.ToLower
ToLower(str) == [i \in 1..Len(str) |-> IF str[i] = "B" THEN "b" ELSE str[i]]

\* strings.Contains
Contains(str, substr) ==
  \E i \in 0..(Len(str) - Len(substr)) :
    SubSeq(str, i + 1, i + Len(substr)) = substr

\* regexp.Compile: TRUE iff the pattern has an error (a "(" never closed)
Compile(pattern) == \E i \in 1..Len(pattern) : pattern[i] = "("

\* Regexp.MatchString: an unanchored match; "." matches any character, every
\* other character of the pattern matches itself
MatchString(pattern, str) ==
  \E i \in 0..(Len(str) - Len(pattern)) :
    \A j \in 1..Len(pattern) : pattern[j] = "." \/ pattern[j] = str[i + j]

\* NewContentFilterService(level); loaded is history: the words as supplied
NewContentFilterService(level) ==
  [sensitiveWords |-> {}, regexPatterns |-> <<>>, level |-> level,
   loaded |-> {}]

\* a loop that replaces the word set by the supplied words
RECURSIVE addWords_replace(_, _)
addWords_replace(sensitiveWords, words) ==
  IF words = <<>> THEN {}
  ELSE {ToLower(Head(words))} \cup addWords_replace(sensitiveWords, Tail(words))

\* the loop of LoadSensitiveWords over the supplied words
RECURSIVE addWords(_, _)
addWords(sensitiveWords, words) ==
  IF words = <<>> THEN sensitiveWords
  ELSE addWords(sensitiveWords \cup {ToLower(Head(words))}, Tail(words))

\* LoadSensitiveWords
LoadSensitiveWords(words) ==
  /\ svc' = [svc EXCEPT !.sensitiveWords = addWords(@, words),
                        !.loaded = @ \cup Range(words)]
  /\ ret' = [op |-> "LoadSensitiveWords", words |-> words]
  /\ UNCHANGED <<impl, now, cache, hits, misses, evictionCallback, cbLog,
                 removed, order, lookups, hist, std, mon, prv, tc, rt>>

\* an AddRegexPattern that appends the pattern even when it reports an error
AddRegexPattern_keep(pattern) ==
  /\ Len(svc.regexPatterns) < MaxPatterns
  /\ ret' = [op |-> "AddRegexPattern", pattern |-> pattern,
             err |-> Compile(pattern)]
  /\ svc' = [svc EXCEPT !.regexPatterns = Append(@, pattern)]
  /\ UNCHANGED <<impl, now, cache, hits, misses, evictionCallback, cbLog,
                 removed, order, lookups, hist, std, mon, prv, tc, rt>>

\* AddRegexPattern
AddRegexPattern(pattern) ==
  /\ Len(svc.regexPatterns) < MaxPatterns
  /\ IF Compile(pattern)
     THEN /\ ret' = [op |-> "AddRegexPattern", pattern |-> pattern,
                     err |-> TRUE]
          /\ svc' = svc
     ELSE /\ ret' = [op |-> "AddRegexPattern", pattern |-> pattern,
                     err |-> FALSE]
          /\ svc' = [svc EXCEPT !.regexPatterns = Append(@, pattern)]
  /\ UNCHANGED <<impl, now, cache, hits, misses, evictionCallback, cbLog,
                 removed, order, lookups, hist, std, mon, prv, tc, rt>>

\* FilterResult
FilterResult(isClean, score, categories, suggestions, reason) ==
  [IsClean |-> isClean, Score |-> score, Categories |-> categories,
   Suggestions |-> suggestions, Reason |-> reason]

\* AIFilterResult of analyzeText for a response whose highest category score
\* is score; the endpoint flags the category "hate" above one half
AIFilterResult(score) ==
  [Score |-> score,
   Categories |-> {<<"hate", score > 50>>},
   Suggestions |-> IF score > 50
                   THEN <<"Content contains inappropriate hate">> ELSE <<>>]

\* analyzeText: the request fails, or the response is decoded
analyzeText(text) ==
  {[err |-> TRUE, result |-> {}]}
  \cup {[err |-> FALSE, result |-> {AIFilterResult(sc)}] : sc \in AnalyzerScores}

\* analyzeImage (analyzeAudio and analyzeVideo are the same stub)
analyzeImage(imageURL) ==
  {[err |-> FALSE,
    result |-> {[Score |-> 0, Categories |-> {}, Suggestions |-> <<>>]}]}

\* AIFilter.Analyze: the outcomes (result, error) the call may have
Analyze(content, contentType) ==
  CASE contentType = TextContent  -> analyzeText(content)
    [] contentType = ImageContent -> analyzeImage(content)
    [] OTHER                      -> {[err |-> TRUE, result |-> {}]}

\* a checkSensitiveWords that does not lower-case the content
checkSensitiveWords_cased(content) ==
  {word \in svc.sensitiveWords : Contains(content, word)}

\* checkSensitiveWords: the words it may return, one per map iteration order
\* that meets a match first; empty when it returns (false, "")
checkSensitiveWords(content) ==
  {word \in svc.sensitiveWords : Contains(ToLower(content), word)}

\* a checkRegexPatterns that returns the last matching pattern
checkRegexPatterns_last(content) ==
  LET hit == {i \in 1..Len(svc.regexPatterns) :
                MatchString(svc.regexPatterns[i], content)}
  IN  IF hit = {} THEN {}
      ELSE {svc.regexPatterns[CHOOSE i \in hit : \A j \in hit : i >= j]}

\* checkRegexPatterns: the first pattern of the list that matches, if any
checkRegexPatterns(content) ==
  LET hit == {i \in 1..Len(svc.regexPatterns) :
                MatchString(svc.regexPatterns[i], content)}
  IN  IF hit = {} THEN {}
      ELSE {svc.regexPatterns[CHOOSE i \in hit : \A j \in hit : i <= j]}

\* a shouldBlock that blocks a score equal to the threshold
shouldBlockAt_ge(level, result) ==
  CASE level = LevelLow    -> result.Score >= 90
    [] level = LevelMedium -> result.Score >= 70
    [] level = LevelHigh   -> result.Score >= 50
    [] OTHER               -> result.Score >= 80

\* shouldBlock's switch on s.level
shouldBlockAt(level, result) ==
  CASE level = LevelLow    -> result.Score > 90
    [] level = LevelMedium -> result.Score > 70
    [] level = LevelHigh   -> result.Score > 50
    [] OTHER               -> result.Score > 80

\* shouldBlock
shouldBlock(result) == shouldBlockAt(svc.level, result)

\* a stage 3 that passes the content when the analyzer fails
FilterAI_pass(ai) ==
  IF ai.err
  THEN [result |-> {FilterResult(TRUE, 0, {}, <<>>, <<>>)}, err |-> FALSE]
  ELSE LET aiResult == CHOOSE r \in ai.result : TRUE
       IN  [result |->
              {FilterResult(~shouldBlock(aiResult), aiResult.Score,
                            aiResult.Categories, aiResult.Suggestions,
                            IF shouldBlock(aiResult)
                            THEN <<"AI model detected inappropriate content">>
                            ELSE <<>>)},
            err |-> FALSE]

\* Filter, stage 3: what Filter returns for the analyzer outcome ai
FilterAI(ai) ==
  IF ai.err THEN [result |-> {}, err |-> TRUE]
  ELSE LET aiResult == CHOOSE r \in ai.result : TRUE
       IN  [result |->
              {FilterResult(~shouldBlock(aiResult), aiResult.Score,
                            aiResult.Categories, aiResult.Suggestions,
                            IF shouldBlock(aiResult)
                            THEN <<"AI model detected inappropriate content">>
                            ELSE <<>>)},
            err |-> FALSE]

\* Filter: the stages run (history), the analyzer outcome when it was
\* invoked, and the (result, error) returned
FilterOutcomes(content, contentType) ==
  LET words    == checkSensitiveWords(content)
      patterns == checkRegexPatterns(content)
  IN  IF words # {}
      THEN {[stages |-> <<"words">>, analysis |-> {}, err |-> FALSE,
             result |-> {FilterResult(FALSE, 100, {<<"sensitive_words", TRUE>>},
                           <<>>, <<"Contains sensitive word: ", word>>)}]
              : word \in words}
      ELSE IF patterns # {}
      THEN {[stages |-> <<"words", "patterns">>, analysis |-> {},
             err |-> FALSE,
             result |-> {FilterResult(FALSE, 80, {<<"pattern_match", TRUE>>},
                           <<>>, <<"Matches forbidden pattern: ", pattern>>)}]
              : pattern \in patterns}
      ELSE {[stages |-> <<"words", "patterns", "ai">>, analysis |-> {ai},
             err |-> FilterAI(ai).err, result |-> FilterAI(ai).result]
              : ai \in Analyze(content, contentType)}

Filter(content, contentType) ==
  /\ \E o \in FilterOutcomes(content, contentType) :
       ret' = [op |-> "Filter", content |-> content,
               contentType |-> contentType, stages |-> o.stages,
               analysis |-> o.analysis, result |-> o.result, err |-> o.err]
  /\ UNCHANGED <<impl, now, cache, hits, misses, evictionCallback, cbLog,
                 removed, order, lookups, hist, svc, std, mon, prv, tc, rt>>

InitFilter ==
  /\ impl = "timestamp"
  /\ NewCacheManager
  /\ \E level \in Levels : svc = NewContentFilterService(level)
  /\ std = Nil
  /\ mon = Nil
  /\ NoProvider /\ NoRuntime

NextFilter ==
  \/ \E words \in WordLists : LoadSensitiveWords(words)
  \/ \E pattern \in PatternInputs : AddRegexPattern(pattern)
  \/ \E content \in Texts, contentType \in FilterTypes :
       Filter(content, contentType)

SpecFilter == InitFilter /\ [][NextFilter]_vars

\* ------------------------------------------------- claims on the filter
\* some loaded word, lower-cased, occurs in the lower-cased content
WordHit(content) ==
  \E w \in svc.loaded : Contains(ToLower(content), ToLower(w))

\* the patterns of the list that match the content, by position
PatternHits(content) ==
  {i \in 1..Len(svc.regexPatterns) : MatchString(svc.regexPatterns[i], content)}

\* C11: when the lower-cased content contains a loaded sensitive word
\* (compared without regard to case), Filter returns no error and exactly
\* the result IsClean=false, Score=1.0, Categories={sensitive_words: true},
\* Reason naming a loaded word that occurs in the content; only the word
\* stage has run: no pattern was evaluated and the analyzer was not invoked.
C11_SensitiveWordBlocks ==
  (ret.op = "Filter" /\ WordHit(ret.content)) =>
    /\ ret.err = FALSE
    /\ ret.stages = <<"words">>
    /\ ret.analysis = {}
    /\ Cardinality(ret.result) = 1
    /\ \A r \in ret.result :
         /\ r.IsClean = FALSE
         /\ r.Score = 100
         /\ r.Categories = {<<"sensitive_words", TRUE>>}
         /\ \E w \in svc.loaded :
              /\ Contains(ToLower(ret.content), ToLower(w))
              /\ r.Reason = <<"Contains sensitive word: ", ToLower(w)>>

\* a content with a capital, blocked for a word loaded with a capital, while
\* a pattern of the list matches the content too
C11_Witness ==
  /\ ret.op = "Filter"
  /\ ret.stages = <<"words">>
  /\ ret.content # ToLower(ret.content)
  /\ \E w \in svc.loaded :
       w # ToLower(w) /\ Contains(ToLower(ret.content), ToLower(w))
  /\ PatternHits(ret.content) # {}

\* C12: the stages of one Filter call run in the order words, patterns,
\* analyzer and stop at the first stage that blocks: the pattern stage runs
\* only when no word matched, the analyzer only when no pattern matched
\* either; when no word matches and some pattern does, the result is
\* IsClean=false, Score=0.8, Categories={pattern_match: true} with the Reason
\* naming the earliest added pattern that matches, and no error.
C12_StagesInOrder ==
  ret.op = "Filter" =>
    /\ ret.stages \in {<<"words">>, <<"words", "patterns">>,
                       <<"words", "patterns", "ai">>}
    /\ (Len(ret.stages) = 1) = WordHit(ret.content)
    /\ (Len(ret.stages) = 2) =
         (~WordHit(ret.content) /\ PatternHits(ret.content) # {})
    /\ (ret.analysis # {}) =
         (~WordHit(ret.content) /\ PatternHits(ret.content) = {})
    /\ (ret.analysis # {}) = (Len(ret.stages) = 3)
    /\ (~WordHit(ret.content) /\ PatternHits(ret.content) # {}) =>
         /\ ret.err = FALSE
         /\ \E i \in PatternHits(ret.content) :
              /\ \A j \in PatternHits(ret.content) : i <= j
              /\ ret.result =
                   {FilterResult(FALSE, 80, {<<"pattern_match", TRUE>>}, <<>>,
                      <<"Matches forbidden pattern: ", svc.regexPatterns[i]>>)}

\* two different patterns match, no word does, and Filter has answered
C12_Witness ==
  /\ ret.op = "Filter"
  /\ ret.stages = <<"words", "patterns">>
  /\ svc.sensitiveWords # {}
  /\ \E i, j \in PatternHits(ret.content) :
       svc.regexPatterns[i] # svc.regexPatterns[j]

\* C13: when the analyzer returns an error, Filter returns an error and no
\* result, so a clean result implies an analysis that succeeded; a call that
\* ends in the word or pattern stage returns no error and a not-clean result.
C13_AnalyzerErrorPropagates ==
  ret.op = "Filter" =>
    /\ (\E a \in ret.analysis : a.err) => (ret.err /\ ret.result = {})
    /\ \A r \in ret.result :
         r.IsClean => \E a \in ret.analysis : ~a.err
    /\ Len(ret.stages) < 3 =>
         (~ret.err /\ ret.result # {} /\ \A r \in ret.result : ~r.IsClean)
    /\ ret.err => \E a \in ret.analysis : a.err

\* the analyzer was invoked for a text that passed both local stages of a
\* service holding words and patterns, and failed
C13_Witness ==
  /\ ret.op = "Filter"
  /\ ret.contentType = TextContent
  /\ svc.sensitiveWords # {}
  /\ svc.regexPatterns # <<>>
  /\ \E a \in ret.analysis : a.err
  /\ ret.err

\* the blocking threshold of a level, in hundredths
Threshold(level) ==
  CASE level = LevelLow    -> 90
    [] level = LevelMedium -> 70
    [] level = LevelHigh   -> 50
    [] OTHER               -> 80

\* C14: when Filter reaches the decision with analyzer score s, the result
\* is not clean iff s is strictly above the level's threshold (0.9 Low, 0.7
\* Medium, 0.5 High, 0.8 any other level); a not-clean result has the reason
\* "AI model detected inappropriate content"; Score, Categories and
\* Suggestions are the analyzer's in both outcomes; and a score blocked at
\* Low is blocked at Medium and at High.
C14_LevelThresholds ==
  /\ (ret.op = "Filter" /\ \E a \in ret.analysis : ~a.err) =>
       /\ ~ret.err
       /\ Cardinality(ret.result) = 1
       /\ \A a \in ret.analysis : \A ar \in a.result : \A r \in ret.result :
            /\ r.IsClean = ~(ar.Score > Threshold(svc.level))
            /\ r.Score = ar.Score
            /\ r.Categories = ar.Categories
            /\ r.Suggestions = ar.Suggestions
            /\ ~r.IsClean =>
                 r.Reason = <<"AI model detected inappropriate content">>
  /\ \A sc \in AnalyzerScores :
       shouldBlockAt(LevelLow, [Score |-> sc]) =>
         /\ shouldBlockAt(LevelMedium, [Score |-> sc])
         /\ shouldBlockAt(LevelHigh, [Score |-> sc])

\* a score equal to the threshold of the level was returned clean
C14_Witness ==
  /\ ret.op = "Filter"
  /\ \E a \in ret.analysis : \E ar \in a.result :
       ar.Score = Threshold(svc.level)
  /\ \A r \in ret.result : r.IsClean
  /\ ret.result # {}

\* C15: LoadSensitiveWords only adds words: the words present before the
\* call are present after it, every supplied word is present in lower case,
\* and the pattern list and the level are unchanged.
C15_LoadOnlyAdds ==
  [][ret'.op = "LoadSensitiveWords" =>
       /\ svc.sensitiveWords \subseteq svc'.sensitiveWords
       /\ \A i \in 1..Len(ret'.words) :
            ToLower(ret'.words[i]) \in svc'.sensitiveWords
       /\ svc'.regexPatterns = svc.regexPatterns
       /\ svc'.level = svc.level]_vars

\* a load with a capitalised word into a service that held another word and
\* a pattern
C15_Witness ==
  /\ ret.op = "LoadSensitiveWords"
  /\ \E i \in 1..Len(ret.words) : ret.words[i] # ToLower(ret.words[i])
  /\ \E w \in svc.sensitiveWords :
       \A i \in 1..Len(ret.words) : w # ToLower(ret.words[i])
  /\ svc.regexPatterns # <<>>

\* C16: AddRegexPattern with a pattern that does not compile returns an
\* error and leaves patterns, words and level unchanged; with a valid pattern
\* it returns no error and the list is the earlier list with exactly that
\* pattern appended, words and level unchanged.
C16_AddRegexPattern ==
  [][ret'.op = "AddRegexPattern" =>
       /\ ret'.err = Compile(ret'.pattern)
       /\ svc'.sensitiveWords = svc.sensitiveWords
       /\ svc'.level = svc.level
       /\ svc'.regexPatterns =
            IF Compile(ret'.pattern) THEN svc.regexPatterns
            ELSE Append(svc.regexPatterns, ret'.pattern)]_vars

\* an invalid pattern was rejected by a service that holds a pattern and words
C16_Witness ==
  /\ ret.op = "AddRegexPattern"
  /\ ret.err
  /\ Len(svc.regexPatterns) = 1
  /\ svc.sensitiveWords # {}

\* =========================================================================
\* StandardizeCategories (pkg/filter/ai_provider.go)
\* =========================================================================
MaxLabels == 2       \* most labels in one categories map

\* CategoryMapping
CategoryMapping(providerCategory, standardCategory, severity) ==
  [ProviderCategory |-> providerCategory,
   StandardCategory |-> standardCategory, Severity |-> severity]

\* the table of StandardizeCategories; severities in hundredths
mappings ==
  [openai  |-> <<CategoryMapping("hate", "hate_speech", 100),
                 CategoryMapping("sexual", "adult_content", 100),
                 CategoryMapping("violence", "violence", 100),
                 CategoryMapping("self-harm", "self_harm", 100)>>,
   azure   |-> <<CategoryMapping("Adult", "adult_content", 100),
                 CategoryMapping("Violence", "violence", 100),
                 CategoryMapping("Hate", "hate_speech", 100),
                 CategoryMapping("SelfHarm", "self_harm", 100)>>,
   google  |-> <<CategoryMapping("adult", "adult_content", 100),
                 CategoryMapping("violence", "violence", 100),
                 CategoryMapping("hate", "hate_speech", 100),
                 CategoryMapping("harassment", "harassment", 100)>>,
   tencent |-> <<CategoryMapping("Porn", "adult_content", 100),
                 CategoryMapping("Terror", "violence", 100),
                 CategoryMapping("Ad", "advertisement", 50),
                 CategoryMapping("Abuse", "hate_speech", 100)>>]

\* the provider names callers pass; "baidu" has no table
ProviderNames == {"openai", "azure", "google", "tencent", "baidu"}

\* the labels providers return; "Politics" is in no table
Labels == {"Porn", "Ad", "hate", "Politics"}

\* an interface{} value: a float64 score in hundredths, or a string
Float64(x) == [type |-> "float64", val |-> x]
Values == {Float64(30), Float64(50), Float64(95), Float64(100)}
          \cup {[type |-> "string", val |-> "high"]}

\* the maps callers pass: up to MaxLabels labels, each with a value
CategoryMaps ==
  UNION {[D -> Values] : D \in {L \in SUBSET Labels : Cardinality(L) <= MaxLabels}}

\* a StandardizeCategories that needs a score above the severity
StandardizeCategories_gt(providerName, categories) ==
  IF providerName \notin DOMAIN mappings THEN {}
  ELSE LET providerMappings == mappings[providerName]
       IN  {<<providerMappings[i].StandardCategory, TRUE>> :
              i \in {j \in 1..Len(providerMappings) :
                       /\ providerMappings[j].ProviderCategory \in DOMAIN categories
                       /\ LET val == categories[providerMappings[j].ProviderCategory]
                          IN  /\ val.type = "float64"
                              /\ val.val > providerMappings[j].Severity}}

\* StandardizeCategories: the result map, as the set of its pairs
StandardizeCategories(providerName, categories) ==
  IF providerName \notin DOMAIN mappings THEN {}
  ELSE LET providerMappings == mappings[providerName]
       IN  {<<providerMappings[i].StandardCategory, TRUE>> :
              i \in {j \in 1..Len(providerMappings) :
                       /\ providerMappings[j].ProviderCategory \in DOMAIN categories
                       /\ LET val == categories[providerMappings[j].ProviderCategory]
                          IN  /\ val.type = "float64"
                              /\ val.val >= providerMappings[j].Severity}}

\* a caller applies StandardizeCategories to its arguments
Standardize ==
  /\ ~std.called
  /\ std' = [std EXCEPT !.called = TRUE,
               !.result = StandardizeCategories(std.providerName, std.categories)]
  /\ UNCHANGED <<impl, now, cache, hits, misses, evictionCallback, ret, cbLog,
                 removed, order, lookups, hist, svc, mon, prv, tc, rt>>

InitStandardize ==
  /\ impl = "timestamp"
  /\ NewCacheManager
  /\ svc = Nil
  /\ mon = Nil
  /\ NoProvider /\ NoRuntime
  /\ \E providerName \in ProviderNames, categories \in CategoryMaps :
       std = [providerName |-> providerName, categories |-> categories,
              called |-> FALSE, result |-> {}]

NextStandardize == Standardize

SpecStandardize == InitStandardize /\ [][NextStandardize]_vars

\* ------------------------------------------- claims on the standardizer
\* C17: StandardizeCategories("tencent", {"Porn": 0.95}) returns
\* {adult_content: true}, and StandardizeCategories("tencent", {"Porn": 0.3})
\* returns the empty map.
C17_TencentPorn ==
  (std.called /\ std.providerName = "tencent") =>
    /\ std.categories = [l \in {"Porn"} |-> Float64(95)] =>
         std.result = {<<"adult_content", TRUE>>}
    /\ std.categories = [l \in {"Porn"} |-> Float64(30)] => std.result = {}

\* the normalized vocabulary
StandardCategories ==
  {"adult_content", "violence", "hate_speech", "self_harm", "harassment",
   "advertisement"}

\* C18: a normalized category is flagged true iff the named provider's table
\* maps some returned label to it and that label's score is at least the
\* table's severity; labels outside the table and unknown providers flag
\* nothing; every key of the result is in the fixed vocabulary and every
\* value is true.
C18_FlaggedIffAtSeverity ==
  std.called =>
    /\ \A c \in StandardCategories \cup {pr[1] : pr \in std.result} :
         (<<c, TRUE>> \in std.result) =
           (/\ std.providerName \in DOMAIN mappings
            /\ \E i \in 1..Len(mappings[std.providerName]) :
                 LET m == mappings[std.providerName][i]
                 IN  /\ m.StandardCategory = c
                     /\ m.ProviderCategory \in DOMAIN std.categories
                     /\ std.categories[m.ProviderCategory].type = "float64"
                     /\ std.categories[m.ProviderCategory].val >= m.Severity)
    /\ \A pr \in std.result : pr[1] \in StandardCategories /\ pr[2] = TRUE
    /\ std.providerName \notin DOMAIN mappings => std.result = {}

\* tencent returned "Ad" with a score equal to its severity and a label that
\* is in no table: only advertisement is flagged
C18_Witness ==
  /\ std.called
  /\ std.providerName = "tencent"
  /\ std.categories = [l \in {"Ad", "Politics"} |-> IF l = "Ad" THEN Float64(50) ELSE Float64(100)]
  /\ std.result = {<<"advertisement", TRUE>>}

\* =========================================================================
\* CacheMonitor (pkg/filter/cache_monitor.go)
\* =========================================================================
\* Start spawns a goroutine running monitorLoop; each goroutine has its own
\* ticker, whose channel holds at most one tick.  select takes any ready
\* case.  close of a closed channel panics, which ends the process.  The
\* monitor samples the cache of NewCacheManager, which no action of this
\* part changes.
MaxLoops   == 2      \* cap on the calls of Start
MaxStops   == 2      \* cap on the calls of Stop
MaxSamples == 2      \* cap on the snapshots taken

\* DefaultThresholds; ratios in hundredths, times in milliseconds
DefaultThresholds ==
  [hit_rate_min |-> 70, memory_usage_max |-> 100000000,
   avg_access_time_max |-> 100, expired_ratio_max |-> 20]

\* MonitorConfig.  A nil-able map is a set: empty for nil, else the one map.
MonitorConfig(interval, thresholds, alertCallback) ==
  [Interval |-> interval, Thresholds |-> thresholds,
   AlertCallback |-> alertCallback]

\* the configurations callers pass, each with an alert callback: nothing
\* else set (TestCacheMonitorEviction), or an interval of 100 ms and low
\* thresholds (TestCacheMonitorThresholds)
Configs ==
  {MonitorConfig(0, {}, TRUE),
   MonitorConfig(100,
                 {[hit_rate_min |-> 90, memory_usage_max |-> 100,
                   avg_access_time_max |-> 10, expired_ratio_max |-> 5]},
                 TRUE)}

\* m.config.Thresholds[name]: zero for a missing key and for a nil map
thresholdOf(config, name) ==
  IF config.Thresholds = {} THEN 0
  ELSE LET thresholds == CHOOSE t \in config.Thresholds : TRUE
       IN  IF name \in DOMAIN thresholds THEN thresholds[name] ELSE 0

\* stats.AvgAccessTime: cm.totalTime over the accesses; only BatchGet adds
\* to cm.totalTime, and no caller of a monitored cache here uses BatchGet
AvgAccessTime(stats) == 0

\* checkMetrics: the alerts one snapshot raises, in order.  The expired
\* ratio is a float64 division: n/0 is +Inf for n > 0 and NaN for n = 0.
checkMetrics(stats) ==
  (IF stats.MemoryUsage > thresholdOf(mon.config, "memory_usage_max")
   THEN <<"High memory usage">> ELSE <<>>)
  \o (IF stats.HitRate.num * 100
           < thresholdOf(mon.config, "hit_rate_min") * stats.HitRate.den
      THEN <<"Low hit rate">> ELSE <<>>)
  \o (IF AvgAccessTime(stats) > thresholdOf(mon.config, "avg_access_time_max")
      THEN <<"High average access time">> ELSE <<>>)
  \o (IF \/ stats.Size > 0 /\ stats.ExpiredEntries * 100
                    > thresholdOf(mon.config, "expired_ratio_max") * stats.Size
         \/ stats.Size = 0 /\ stats.ExpiredEntries > 0
      THEN <<"High expired entries ratio">> ELSE <<>>)

\* alert: every message is logged; the messages the AlertCallback receives
alert(messages) == IF mon.config.AlertCallback THEN messages ELSE <<>>

\* handleEviction, the cache's eviction callback: one log line, no alert
handleEviction(key, entry) ==
  [log |-> <<"Cache entry evicted", key>>, alerts |-> <<>>]

\* NewCacheMonitor: a zero Interval becomes one minute before the
\* configuration is copied into the monitor; the default thresholds are put
\* into the local copy after that, and into the cache's own thresholds.
\* stopChan is open and there is no goroutine.  stops, samples and alerts
\* count calls and emissions, last holds the alerts of the latest snapshot;
\* given and quiesced are history: the configuration as the caller passed
\* it; stopChan was closed and every monitorLoop started so far had returned.
NewCacheMonitor(config) ==
  [config |-> [config EXCEPT !.Interval = IF @ = 0 THEN 60000 ELSE @],
   given |-> config,
   closed |-> FALSE, loops |-> <<>>, stops |-> 0, panicked |-> FALSE,
   samples |-> 0, alerts |-> 0, last |-> [alerts |-> <<>>, delivered |-> <<>>],
   quiesced |-> FALSE]

\* all loops of m have returned after stopChan was closed
Quiet(m) ==
  /\ m.closed
  /\ m.loops # <<>>
  /\ \A i \in 1..Len(m.loops) : m.loops[i].pc = "done"

\* one step of the monitor to the state m
MonitorStep(m) ==
  /\ ~mon.panicked
  /\ mon' = [m EXCEPT !.quiesced = mon.quiesced \/ Quiet(m)]
  /\ UNCHANGED <<impl, now, cache, hits, misses, evictionCallback, ret, cbLog,
                 removed, order, lookups, hist, svc, std, prv, tc, rt>>

\* Start: go m.monitorLoop()
Start ==
  /\ Len(mon.loops) < MaxLoops
  /\ MonitorStep([mon EXCEPT !.loops = Append(@, [pc |-> "new", tick |-> FALSE])])

\* Stop: close(m.stopChan)
Stop ==
  /\ mon.stops < MaxStops
  /\ MonitorStep([mon EXCEPT !.closed = TRUE, !.stops = @ + 1,
                             !.panicked = mon.closed])

\* monitorLoop: time.NewTicker(m.config.Interval)
NewTicker(i) ==
  /\ i \in 1..Len(mon.loops)
  /\ mon.loops[i].pc = "new"
  /\ MonitorStep([mon EXCEPT !.loops[i].pc = "select"])

\* the ticker of a running loop fires: its channel holds one tick
TickerFire(i) ==
  /\ i \in 1..Len(mon.loops)
  /\ mon.loops[i].pc = "select"
  /\ ~mon.loops[i].tick
  /\ MonitorStep([mon EXCEPT !.loops[i].tick = TRUE])

\* monitorLoop, case <-ticker.C: collectStats takes a snapshot and checks it
collectStats(i) ==
  /\ i \in 1..Len(mon.loops)
  /\ mon.loops[i].pc = "select"
  /\ mon.loops[i].tick
  /\ mon.samples < MaxSamples
  /\ MonitorStep([mon EXCEPT !.loops[i].tick = FALSE,
                             !.samples = @ + 1,
                             !.alerts = @ + Len(checkMetrics(GetStats)),
                             !.last = [alerts |-> checkMetrics(GetStats),
                                       delivered |-> alert(checkMetrics(GetStats))]])

\* monitorLoop, case <-m.stopChan: return (the deferred ticker.Stop runs)
monitorLoopReturn(i) ==
  /\ i \in 1..Len(mon.loops)
  /\ mon.loops[i].pc = "select"
  /\ mon.closed
  /\ MonitorStep([mon EXCEPT !.loops[i].pc = "done", !.loops[i].tick = FALSE])

\* the cache of NewCacheManager once NewCacheMonitor has registered
\* handleEviction with SetEvictionCallback
Attached ==
  /\ impl = "timestamp"
  /\ now = 0
  /\ cache = <<>>
  /\ hits = 0
  /\ misses = 0
  /\ evictionCallback = TRUE
  /\ ret = [op |-> "SetEvictionCallback"]
  /\ cbLog = <<>>
  /\ removed = <<>>
  /\ order = <<>>
  /\ lookups = 0
  /\ hist = [ok |-> TRUE, setsOnly |-> TRUE, cb |-> TRUE, pairs |-> <<>>,
             last |-> 0, cbs |-> 0]

InitMonitor ==
  /\ Attached
  /\ svc = Nil
  /\ std = Nil
  /\ NoProvider /\ NoRuntime
  /\ \E config \in Configs : mon = NewCacheMonitor(config)

NextMonitor ==
  \/ Start
  \/ Stop
  \/ \E i \in 1..MaxLoops : NewTicker(i)
  \/ \E i \in 1..MaxLoops : TickerFire(i)
  \/ \E i \in 1..MaxLoops : collectStats(i)
  \/ \E i \in 1..MaxLoops : monitorLoopReturn(i)

SpecMonitor == InitMonitor /\ [][NextMonitor]_vars

\* -------------------------------------------------- claims on the monitor
\* C19: after Start followed by Stop the sampling loop terminates, and once
\* it has terminated the monitor is Stopped for good: no further snapshot is
\* taken and no further alert is emitted, whatever is called afterwards.
C19_StoppedIsTerminal ==
  [][mon.quiesced =>
       (mon'.samples = mon.samples /\ mon'.alerts = mon.alerts)]_vars

\* C20: a call of Stop after the first one returns without fault and leaves
\* the monitor Stopped.
C20_StopGuarded ==
  mon.stops >= 2 => (~mon.panicked /\ mon.closed)

\* C21: a monitor created with Thresholds unset holds the default thresholds
\* of all four metrics in its own configuration, which every tick evaluates
\* the snapshot against; an unset Interval becomes one minute.
C21_DefaultThresholds ==
  /\ mon.given.Thresholds = {} =>
       /\ mon.config.Thresholds = {DefaultThresholds}
       /\ \A name \in DOMAIN DefaultThresholds :
            thresholdOf(mon.config, name) = DefaultThresholds[name]
  /\ mon.given.Interval = 0 => mon.config.Interval = 60000

\* ------------------------------------------- a monitor on a cache in use
\* Callers Set and Get on the monitored cache while the clock advances; the
\* monitor is started once and samples.
NextMonitored ==
  \/ \E p \in Pairs : Set(p.ContentType, p.Content, ValueFor(p), SizeFor(p))
  \/ \E p \in Pairs : Get(p.ContentType, p.Content)
  \/ Tick
  \/ (mon.loops = <<>> /\ Start)
  \/ NewTicker(1)
  \/ TickerFire(1)
  \/ collectStats(1)

SpecMonitored == InitMonitor /\ [][NextMonitored]_vars

\* the threshold in force for a metric: the caller's, or the default when
\* the caller set no thresholds
InForce(name) ==
  IF mon.given.Thresholds = {} THEN DefaultThresholds[name]
  ELSE thresholdOf(mon.given, name)

\* how often message x occurs in the sequence
Count(messages, x) == Cardinality({i \in 1..Len(messages) : messages[i] = x})

\* the step is one sampling tick of the running monitor
Sampled == mon'.samples = mon.samples + 1

\* C22: while the monitor runs, a sampling tick at which the cache's hit
\* rate is below hit_rate_min delivers exactly one "Low hit rate" alert to
\* the AlertCallback, and a tick at which it is at or above delivers none.
C22_OneLowHitRateAlert ==
  [][Sampled =>
       Count(mon'.last.delivered, "Low hit rate") =
         IF GetStats.HitRate.num * 100 < InForce("hit_rate_min") * GetStats.HitRate.den
         THEN 1 ELSE 0]_vars

\* the cached entries that are stale
Stale == {k \in DOMAIN cache : now - cache[k].Timestamp > TTL}

\* C23: on every tick of a monitor that was given its thresholds, each
\* threshold is compared with the snapshot and each violated one raises one
\* alert, sent to the log and to the AlertCallback; a "High expired entries
\* ratio" alert is raised whenever the stale fraction of the cached entries
\* exceeds expired_ratio_max.  (The average access time of this cache is
\* zero and never above its threshold.)
C23_AlertPerViolatedThreshold ==
  [][(Sampled /\ mon.given.Thresholds # {}) =>
       /\ mon'.last.delivered = mon'.last.alerts
       /\ Count(mon'.last.alerts, "High memory usage") =
            IF SumSize(cache, DOMAIN cache)
                 > thresholdOf(mon.config, "memory_usage_max") THEN 1 ELSE 0
       /\ Count(mon'.last.alerts, "Low hit rate") =
            IF Ratio(hits, hits + misses).num * 100
                 < thresholdOf(mon.config, "hit_rate_min")
                     * Ratio(hits, hits + misses).den THEN 1 ELSE 0
       /\ Count(mon'.last.alerts, "High expired entries ratio") =
            IF Cardinality(Stale) * 100
                 > thresholdOf(mon.config, "expired_ratio_max") * Size
            THEN 1 ELSE 0]_vars

\* the alerts the AlertCallback receives for the evictions of the last step:
\* the cache calls handleEviction once per evicted entry
RECURSIVE evictionAlerts(_)
evictionAlerts(log) ==
  IF log = <<>> THEN <<>>
  ELSE alert(handleEviction(Head(log).key, Head(log).value).alerts)
       \o evictionAlerts(Tail(log))

\* C24: every eviction from a cache with a monitor attached is reported
\* through the AlertCallback with a message holding "Cache entry evicted"
\* and the evicted key: one report per evicted entry.
C24_EvictionsReported ==
  /\ Len(evictionAlerts(cbLog)) = Len(removed)
  /\ \A i \in 1..Len(removed) :
       \E j \in 1..Len(evictionAlerts(cbLog)) :
         evictionAlerts(cbLog)[j] = <<"Cache entry evicted", removed[i].key>>

\* ---------------------------------------------- NewAIProvider (ai_provider.go)
ProviderOpenAI  == "openai"
ProviderAzure   == "azure"
ProviderGoogle  == "google"
ProviderTencent == "tencent"

ProviderTypes == {ProviderOpenAI, ProviderAzure, ProviderGoogle, ProviderTencent}

\* ProviderConfig; an unset string field is ""
ProviderConfig(type, key, secret, region, endpoint) ==
  [Type |-> type, APIKey |-> key, APISecret |-> secret, Region |-> region,
   Endpoint |-> endpoint]

\* the configurations callers pass: every supported type, an unknown type and
\* the zero value of Type, each field set or unset
ProviderConfigs ==
  {ProviderConfig(type, key, secret, region, endpoint) :
     type \in ProviderTypes \cup {"baidu", ""}, key \in {"", "k"},
     secret \in {"", "s"}, region \in {"", "r"}, endpoint \in {"", "e"}}

\* What a constructor returns: the provider as a set (empty for nil) and the
\* error message ("" for a nil error).
Constructed(name, config) ==
  [provider |-> {[name |-> name, config |-> config]}, err |-> ""]
Rejected(msg) == [provider |-> {}, err |-> msg]

\* NewOpenAIProvider: no field is examined
NewOpenAIProvider(config) == Constructed("openai", config)

NewAzureProvider(config) ==
  IF config.APIKey = "" THEN Rejected("Azure API key is required")
  ELSE IF config.Endpoint = "" THEN Rejected("Azure endpoint is required")
  ELSE Constructed("azure", config)

NewGoogleProvider(config) ==
  IF config.APIKey = "" THEN Rejected("Google API key is required")
  ELSE IF config.Region = "" THEN Rejected("Google project ID is required")
  ELSE Constructed("google", config)

\* NewTencentProvider: an unset Region becomes "ap-guangzhou"
NewTencentProvider(config) ==
  IF config.APIKey = "" THEN Rejected("Tencent API key is required")
  ELSE IF config.APISecret = "" THEN Rejected("Tencent API secret is required")
  ELSE Constructed("tencent",
         [config EXCEPT !.Region = IF @ = "" THEN "ap-guangzhou" ELSE @])

\* NewAIProvider: the switch on config.Type
NewAIProvider(config) ==
  CASE config.Type = ProviderOpenAI  -> NewOpenAIProvider(config)
    [] config.Type = ProviderAzure   -> NewAzureProvider(config)
    [] config.Type = ProviderGoogle  -> NewGoogleProvider(config)
    [] config.Type = ProviderTencent -> NewTencentProvider(config)
    [] OTHER -> Rejected("unsupported AI provider type")

\* one call of NewAIProvider on the configuration chosen at the start
CallNewAIProvider ==
  /\ ~prv.called
  /\ prv' = [prv EXCEPT !.called = TRUE,
                        !.provider = NewAIProvider(prv.config).provider,
                        !.err = NewAIProvider(prv.config).err]
  /\ UNCHANGED <<impl, now, cache, hits, misses, evictionCallback, ret, cbLog,
                 removed, order, lookups, hist, svc, std, mon, tc, rt>>

InitProvider ==
  /\ impl = "timestamp"
  /\ NewCacheManager
  /\ svc = Nil /\ std = Nil /\ mon = Nil /\ tc = Nil /\ NoRuntime
  /\ \E config \in ProviderConfigs :
       prv = [config |-> config, called |-> FALSE, provider |-> {}, err |-> ""]

NextProvider == CallNewAIProvider

SpecProvider == InitProvider /\ [][NextProvider]_vars

\* ------------------------------------------------ claims on the factory
\* a credential the selected provider type needs is unset
MissingCredential(config) ==
  \/ config.APIKey = ""
  \/ config.Type = ProviderAzure /\ config.Endpoint = ""
  \/ config.Type = ProviderGoogle /\ config.Region = ""
  \/ config.Type = ProviderTencent /\ config.APISecret = ""

\* C26: NewAIProvider returns an error and no provider whenever a required
\* credential is unset (an empty APIKey for every provider type) and whenever
\* Type is not a supported type.
C26_MissingCredentialRejected ==
  (prv.called /\ (MissingCredential(prv.config)
                  \/ prv.config.Type \notin ProviderTypes))
    => (prv.err # "" /\ prv.provider = {})

\* ------------------------------------------ TencentProvider (tencent_provider.go)
ContentTypeAudio == 2
ContentTypeVideo == 3

MaxCallers == 2

\* the status queries one call may issue
maxRetriesAudio == 10
maxRetriesVideo == 30

\* the provider's private cache: NewCacheManager(1000, 24*time.Hour), in hours
TencentCacheEntries == 1000
TencentCacheTTL     == 24

\* http.StatusOK
StatusOK == 200

\* Callers analyse one and the same content as text, image, audio or video.
TencentContent == <<97>>
TencentTypes   ==
  {ContentTypeText, ContentTypeImage, ContentTypeAudio, ContentTypeVideo}

\* Response.Status of a DescribeTaskDetail answer
Statuses == {"Success", "Failed", "Running"}

\* the Score the service reports for the label "Porn", on its scale of 0..100
RawScores == {40, 95}

\* An HTTP exchange as the provider sees it: the status code (0 when
\* client.Do returned an error and there is no response), whether the body
\* decodes, and of a decoded body the task or status field and the Score.
Resp(code, decodes, status, score) ==
  [code |-> code, decodes |-> decodes, status |-> status, score |-> score]

TransportError == Resp(0, FALSE, "", 0)

HttpCodes == {StatusOK, 500}

\* answers to TextModeration and ImageModeration
SyncResponses ==
  {TransportError}
  \cup {Resp(code, FALSE, "", 0) : code \in HttpCodes}
  \cup {Resp(code, TRUE, "", score) : code \in HttpCodes, score \in RawScores}

\* answers to CreateAudioModerationTask and CreateVideoModerationTask: with a
\* task id or without one
CreateResponses ==
  {TransportError}
  \cup {Resp(code, FALSE, "", 0) : code \in HttpCodes}
  \cup {Resp(code, TRUE, task, 0) : code \in HttpCodes, task \in {"task", ""}}

\* answers to DescribeTaskDetail
QueryResponses ==
  {TransportError}
  \cup {Resp(code, FALSE, "", 0) : code \in HttpCodes}
  \cup {Resp(code, TRUE, status, 0) :
          code \in HttpCodes, status \in {"Failed", "Running"}}
  \cup {Resp(code, TRUE, "Success", score) :
          code \in HttpCodes, score \in RawScores}

\* a client.Do that does not look at the request's context
respond_ignoreCtx(ctx, responses) == responses

\* client.Do on a request made with http.NewRequestWithContext(ctx, ...): a
\* context that is done makes it return an error
respond(ctx, responses) ==
  IF ctx = "done" THEN {TransportError} ELSE responses

maxRetries(t) ==
  IF t = ContentTypeAudio THEN maxRetriesAudio ELSE maxRetriesVideo

\* The score written into the categories map and reported as Score, in
\* hundredths: AnalyzeText takes the service's Score as it is, the other
\* three divide it by 100.
tencentScore(t, raw) == IF t = ContentTypeText THEN raw * 100 ELSE raw

\* the AIFilterResult built from an answer with the label "Porn" at Score raw
Verdict(t, raw) ==
  [Score |-> tencentScore(t, raw),
   Categories |->
     StandardizeCategories("tencent",
       [label \in {"Porn"} |-> Float64(tencentScore(t, raw))])]

Verdicts(t) == {Verdict(t, raw) : raw \in RawScores}

\* A call: where it stands, its content type, its context, the status
\* queries issued, the last status read, the status code of the last HTTP
\* response, whether it has sent its moderation request, how it returned and
\* the result it returned (a set, empty for nil).
NoCall ==
  [pc |-> "idle", type |-> ContentTypeText, ctx |-> "live", queries |-> 0,
   status |-> "none", code |-> 0, requested |-> FALSE, out |-> "none",
   result |-> {}]

Returned(call, out, result) ==
  [call EXCEPT !.pc = "done", !.out = out, !.result = result]

\* p.cache.Get: the counters and the map after the lookup, and its result
cacheGet(t, c) ==
  LET key == generateKey(t, c)
      ok  == key \in DOMAIN cache
      res == GetResult(IF ok THEN cache[key] ELSE Nil, ok,
                       ok /\ now - cache[key].Timestamp > TencentCacheTTL)
  IN  [hits |-> GetCount(hits, misses, ok)[1],
       misses |-> GetCount(hits, misses, ok)[2],
       cache |-> IF ok THEN [cache EXCEPT ![key].AccessCount = @ + 1]
                 ELSE cache,
       value |-> res.value, found |-> res.found]

\* p.cache.Set(contentType, content, filterResult, 1024): the possible maps
cacheSet(t, c, v) ==
  LET outs == IF Cardinality(DOMAIN cache) >= TencentCacheEntries
              THEN evictOldest(Ev(cache)) ELSE {Ev(cache)}
  IN  {Put(o.m, generateKey(t, c), CacheEntry(v, 1024, now, 0, 0)) : o \in outs}

\* a provider that caches whatever a call returns, a zero result for an error
cacheAfter_always(t, out, result) ==
  IF out = "poll" THEN {cache}
  ELSE UNION {cacheSet(t, TencentContent, v) :
                v \in IF result = {} THEN {[Score |-> 0, Categories |-> {}]}
                      ELSE result}

\* The cache when a call has got out of an HTTP exchange: p.cache.Set stands
\* only before the return of the verdict.
cacheAfter(t, out, result) ==
  IF out = "verdict"
  THEN UNION {cacheSet(t, TencentContent, v) : v \in result}
  ELSE {cache}

\* the variables a call on the provider leaves alone
tencentFrame ==
  <<impl, now, evictionCallback, ret, cbLog, removed, order, lookups, hist,
    svc, std, mon, prv, rt>>

\* AnalyzeText, AnalyzeImage, AnalyzeAudio, AnalyzeVideo up to the cache
\* check: a hit returns the cached result, a miss goes on to the request
AnalyzeCall(c, t) ==
  /\ tc.calls[c].pc = "idle"
  /\ LET g == cacheGet(t, TencentContent)
     IN  /\ hits' = g.hits
         /\ misses' = g.misses
         /\ cache' = g.cache
         /\ tc' = [tc EXCEPT !.calls[c] =
                     IF g.found
                     THEN Returned([@ EXCEPT !.type = t], "hit", {g.value})
                     ELSE [@ EXCEPT !.type = t,
                                    !.pc = IF t \in {ContentTypeText,
                                                     ContentTypeImage}
                                           THEN "request" ELSE "create"]]
  /\ UNCHANGED tencentFrame

\* the caller cancels the context of its running call, or its deadline passes
Cancel(c) ==
  /\ tc.calls[c].pc \in {"request", "create", "poll"}
  /\ tc.calls[c].ctx = "live"
  /\ tc' = [tc EXCEPT !.calls[c].ctx = "done"]
  /\ UNCHANGED <<tencentFrame, cache, hits, misses>>

\* what a call makes of the answer to its one request or to its create
\* request: an error for a failed send, a status other than 200, a body that
\* does not decode and (create) a missing task id
exchange(resp, needsTask) ==
  IF resp.code = 0 \/ resp.code # StatusOK \/ ~resp.decodes THEN "error"
  ELSE IF needsTask /\ resp.status = "" THEN "error"
  ELSE IF needsTask THEN "poll"
  ELSE "verdict"

\* AnalyzeText and AnalyzeImage after the cache check: the one request; its
\* answer is cached and returned, an error is returned
SyncModeration(c) ==
  /\ tc.calls[c].pc = "request"
  /\ \E resp \in respond(tc.calls[c].ctx, SyncResponses) :
       LET call   == [tc.calls[c] EXCEPT !.requested = TRUE,
                                         !.code = resp.code]
           out    == exchange(resp, FALSE)
           result == IF out = "verdict"
                     THEN {Verdict(call.type, resp.score)} ELSE {}
       IN  /\ cache' \in cacheAfter(call.type, out, result)
           /\ tc' = [tc EXCEPT !.calls[c] = Returned(call, out, result)]
  /\ UNCHANGED <<tencentFrame, hits, misses>>

\* AnalyzeAudio, AnalyzeVideo: the request that creates the moderation task
CreateTask(c) ==
  /\ tc.calls[c].pc = "create"
  /\ \E resp \in respond(tc.calls[c].ctx, CreateResponses) :
       LET call == [tc.calls[c] EXCEPT !.requested = TRUE,
                                       !.code = resp.code]
           out  == exchange(resp, TRUE)
       IN  /\ cache' \in cacheAfter(call.type, out, {})
           /\ tc' = [tc EXCEPT !.calls[c] =
                       IF out = "poll" THEN [call EXCEPT !.pc = "poll"]
                       ELSE Returned(call, out, {})]
  /\ UNCHANGED <<tencentFrame, hits, misses>>

\* The poll loop after the query of iteration i (0-based) read status: what
\* the call does next.  Leaving the loop, by break or by its condition, goes
\* on to decode the verdict.
pollLoop_noTimeout(i, status, max) ==
  IF status = "error" THEN "error"
  ELSE IF status = "Success" THEN "verdict"
  ELSE IF status = "Failed" THEN "task failed"
  ELSE IF i + 1 < max THEN "poll"
  ELSE "verdict"

pollLoop(i, status, max) ==
  IF status = "error" THEN "error"
  ELSE IF status = "Success" THEN "verdict"
  ELSE IF status = "Failed" THEN "task failed"
  ELSE IF i = max - 1 THEN "task timeout"
  ELSE IF i + 1 < max THEN "poll"
  ELSE "verdict"

\* What the poll loop reads from an answer: "error" for a failed send or a
\* body that does not decode, else Response.Status.  The status code of the
\* answer is not looked at.
statusOf(resp) ==
  IF resp.code = 0 \/ ~resp.decodes THEN "error" ELSE resp.status

\* one iteration of the poll loop of AnalyzeAudio or AnalyzeVideo, with what
\* follows the loop when it is left
QueryTask(c) ==
  /\ tc.calls[c].pc = "poll"
  /\ tc.calls[c].queries < maxRetries(tc.calls[c].type)
  /\ \E resp \in respond(tc.calls[c].ctx, QueryResponses) :
       LET call   == [tc.calls[c] EXCEPT !.queries = @ + 1,
                                         !.status = statusOf(resp),
                                         !.code = resp.code]
           next   == pollLoop(tc.calls[c].queries, statusOf(resp),
                              maxRetries(call.type))
           result == IF next = "verdict"
                     THEN {Verdict(call.type, resp.score)} ELSE {}
       IN  /\ cache' \in cacheAfter(call.type, next, result)
           /\ tc' = [tc EXCEPT !.calls[c] =
                       IF next = "poll" THEN call
                       ELSE Returned(call, next, result)]
  /\ UNCHANGED <<tencentFrame, hits, misses>>

\* the provider NewTencentProvider returns, no call made yet
TencentConfig == ProviderConfig(ProviderTencent, "k", "s", "", "")

InitTencent ==
  /\ impl = "timestamp"
  /\ NewCacheManager
  /\ svc = Nil /\ std = Nil /\ mon = Nil /\ prv = Nil /\ NoRuntime
  /\ tc = [p |-> NewTencentProvider(TencentConfig).provider,
           calls |-> [c \in 1..MaxCallers |-> NoCall]]

NextTencent ==
  \/ \E c \in 1..MaxCallers, t \in TencentTypes : AnalyzeCall(c, t)
  \/ \E c \in 1..MaxCallers : Cancel(c)
  \/ \E c \in 1..MaxCallers : SyncModeration(c)
  \/ \E c \in 1..MaxCallers : CreateTask(c)
  \/ \E c \in 1..MaxCallers : QueryTask(c)

SpecTencent == InitTencent /\ [][NextTencent]_vars

\* ------------------------------------------- claims on the TencentProvider
\* C25: a call of AnalyzeAudio or AnalyzeVideo issues at most maxRetries
\* status queries (10 for audio, 30 for video) and has returned once they are
\* used up: a query reporting Success yields the decoded verdict, a query
\* reporting Failed yields the "task failed" error at once, and maxRetries
\* queries reporting neither yield the "task timeout" error.
C25_BoundedPolling ==
  \A c \in 1..MaxCallers :
    LET call == tc.calls[c]
        max  == maxRetries(call.type)
    IN  call.type \in {ContentTypeAudio, ContentTypeVideo} =>
          /\ call.queries <= max
          /\ call.pc = "poll" =>
               (call.queries < max /\ call.status \in {"none", "Running"})
          /\ call.status = "Success" =>
               (call.pc = "done" /\ call.out = "verdict"
                /\ call.result # {} /\ call.result \subseteq Verdicts(call.type))
          /\ call.status = "Failed" =>
               (call.pc = "done" /\ call.out = "task failed")
          /\ (call.status = "Running" /\ call.queries = max) =>
               (call.pc = "done" /\ call.out = "task timeout")
          /\ call.out = "verdict" => call.status = "Success"
          /\ call.out = "task timeout" => call.queries = max

\* a video call timed out after 30 queries and an audio call got its verdict
\* from a later query than the first
C25_Witness ==
  \E c, d \in 1..MaxCallers :
    /\ tc.calls[c].type = ContentTypeVideo
    /\ tc.calls[c].out = "task timeout"
    /\ tc.calls[c].queries = maxRetriesVideo
    /\ tc.calls[d].type = ContentTypeAudio
    /\ tc.calls[d].out = "verdict"
    /\ tc.calls[d].queries > 1

\* C30: among the calls for one content type and the same content, made
\* within the cache TTL, at most one gets its verdict from the service, the
\* others being served from the cache; a call served from the cache sends no
\* request and returns the stored result.
C30_OneRequestSequencePerInput ==
  /\ \A t \in TencentTypes :
       Cardinality({c \in 1..MaxCallers :
                      tc.calls[c].type = t /\ tc.calls[c].out = "verdict"}) <= 1
  /\ \A c \in 1..MaxCallers :
       tc.calls[c].out = "hit" =>
         (~tc.calls[c].requested /\ tc.calls[c].result # {}
          /\ tc.calls[c].result \subseteq Verdicts(tc.calls[c].type))

C32_BadStatusIsError ==
  [][\A c \in 1..MaxCallers :
       (tc'.calls[c] # tc.calls[c] /\ tc'.calls[c].ctx = tc.calls[c].ctx) =>
         /\ (tc.calls[c].pc \in {"request", "create", "poll"}
             /\ tc'.calls[c].code \notin {0, StatusOK})
              => (tc'.calls[c].pc = "done"
                  /\ tc'.calls[c].out \in {"error", "task failed",
                                           "task timeout"})
         /\ tc.calls[c].pc = "request" => tc'.calls[c].pc = "done"]_vars

\* C33: the Score of every AIFilterResult a call returns lies in [0,1] (0 to
\* 100 hundredths) when the service's scores lie in 0..100.
C33_ScoreNormalized ==
  \A c \in 1..MaxCallers :
    \A r \in tc.calls[c].result : r.Score \in 0..100

\* C38: a call that returns an error leaves the cache as it was, and what
\* the cache holds and serves is always a verdict of the service.
C38_CacheOnlyOnSuccess ==
  [][/\ \A c \in 1..MaxCallers :
          (/\ tc.calls[c].pc # "done"
           /\ tc'.calls[c].pc = "done"
           /\ tc'.calls[c].out \notin {"verdict", "hit"}) => cache' = cache
     /\ \A c \in 1..MaxCallers :
          tc'.calls[c].out = "hit"
            => tc'.calls[c].result \subseteq Verdicts(tc'.calls[c].type)
     /\ \A t \in TencentTypes :
          generateKey(t, TencentContent) \in DOMAIN cache'
            => cache'[generateKey(t, TencentContent)].Value \in Verdicts(t)]_vars

\* an analysis has timed out, the cache is empty and another call for the
\* same content type has gone to the service
C38_Witness ==
  \E c, d \in 1..MaxCallers :
    /\ tc.calls[c].out = "task timeout"
    /\ cache = <<>>
    /\ tc.calls[d].type = tc.calls[c].type
    /\ tc.calls[d].pc = "poll"
    /\ tc.calls[d].requested

\* ------------------------------------------------- the sweep, both variants
\* Callers insert while the clock advances and the sweep's ticker fires, on
\* either implementation.
NextSweep ==
  \/ \E p \in Pairs : Set(p.ContentType, p.Content, ValueFor(p), SizeFor(p))
  \/ \E p \in Pairs :
       Set_expiry(p.ContentType, p.Content, ValueFor(p), SizeFor(p))
  \/ Tick
  \/ cleanupExpired
  \/ cleanupExpired_expiry

SpecSweep == InitAll /\ [][NextSweep]_vars

\* C29: a pass of the sweep removes every entry with now - insertionTime > TTL
\* and no other entry, in either CacheManager implementation.
C29_SweepRemovesExactlyStale ==
  [][ret'.op = "cleanupExpired" =>
       \A k \in DOMAIN cache :
         (k \in DOMAIN cache') <=> ~(now - InsertedAt(cache[k]) > TTL)]_vars

\* ------------------------------------- goroutines on one CacheManager
\* Callers run Get of the second implementation statement by statement under
\* cm.mutex.RLock(); Set and a pass of the sweep hold cm.mutex.Lock(), so
\* each is one step that needs the lock free of readers.
MaxThreads == 2

Threads == 1..MaxThreads

\* A caller's goroutine: where it stands in Get, the item it looks up (a
\* set, empty outside a call), its local copy of the entry (empty when ok is
\* false) and the counter value it read for the ++.
IdleThread == [pc |-> "idle", item |-> {}, entry |-> {}, reg |-> 0]

\* the goroutines after NewCacheManager: no call running, the manager in use
NewRuntime == [thr |-> [t \in Threads |-> IdleThread], discarded |-> FALSE]

\* the goroutines holding the lock in read mode
RLocked == {t \in Threads : rt.thr[t].pc # "idle"}

\* cm.mutex.Lock() is granted
Exclusive == RLocked = {}

ItemOf(t) == CHOOSE p \in rt.thr[t].item : TRUE
EntryOf(t) == CHOOSE e \in rt.thr[t].entry : TRUE
Ok(t) == rt.thr[t].entry # {}

\* Get: RLock, generateKey and entry, ok := cm.cache[key]
GetRLock(t, p) ==
  /\ ~rt.discarded
  /\ rt.thr[t].pc = "idle"
  /\ lookups < MaxLookups
  /\ LET key == KeyOf(p)
     IN  rt' = [rt EXCEPT !.thr[t] =
                  [pc |-> "load", item |-> {p},
                   entry |-> IF key \in DOMAIN cache THEN {cache[key]} ELSE {},
                   reg |-> 0]]
  /\ lookups' = lookups + 1
  /\ UNCHANGED <<impl, now, cache, hits, misses, evictionCallback, ret, cbLog,
                 removed, order, hist, svc, std, mon, prv, tc>>

\* Get: cm.hits++ or cm.misses++, the read of the counter
GetLoad(t) ==
  /\ rt.thr[t].pc = "load"
  /\ rt' = [rt EXCEPT !.thr[t].pc = "store",
                      !.thr[t].reg = IF Ok(t) THEN hits ELSE misses]
  /\ UNCHANGED <<impl, now, cache, hits, misses, evictionCallback, ret, cbLog,
                 removed, order, lookups, hist, svc, std, mon, prv, tc>>

\* Get: cm.hits++ or cm.misses++, the write of the counter
GetStore(t) ==
  /\ rt.thr[t].pc = "store"
  /\ hits' = IF Ok(t) THEN rt.thr[t].reg + 1 ELSE hits
  /\ misses' = IF Ok(t) THEN misses ELSE rt.thr[t].reg + 1
  /\ rt' = [rt EXCEPT !.thr[t].pc = IF Ok(t) THEN "put" ELSE "ret"]
  /\ UNCHANGED <<impl, now, cache, evictionCallback, ret, cbLog, removed,
                 order, lookups, hist, svc, std, mon, prv, tc>>

\* Get: entry.AccessCount++ and cm.cache[key] = entry
GetPut(t) ==
  /\ rt.thr[t].pc = "put"
  /\ cache' = Put(cache, KeyOf(ItemOf(t)),
                  [EntryOf(t) EXCEPT !.AccessCount = @ + 1])
  /\ rt' = [rt EXCEPT !.thr[t].pc = "ret",
                      !.thr[t].entry = {[EntryOf(t) EXCEPT !.AccessCount = @ + 1]}]
  /\ UNCHANGED <<impl, now, hits, misses, evictionCallback, ret, cbLog,
                 removed, order, lookups, hist, svc, std, mon, prv, tc>>

\* Get: the return, with the deferred RUnlock
GetReturn(t) ==
  /\ rt.thr[t].pc = "ret"
  /\ LET res == GetResult(IF Ok(t) THEN EntryOf(t) ELSE Nil, Ok(t),
                          Ok(t) /\ Expired(EntryOf(t)))
     IN  ret' = [op |-> "Get", item |-> ItemOf(t), value |-> res.value,
                 found |-> res.found]
  /\ cbLog' = <<>>
  /\ removed' = <<>>
  /\ rt' = [rt EXCEPT !.thr[t] = IdleThread]
  /\ UNCHANGED <<impl, now, cache, hits, misses, evictionCallback, order,
                 lookups, hist, svc, std, mon, prv, tc>>

\* The owner is done with the manager: no call is running, it invokes what
\* the type offers to shut the manager down, which is nothing, and drops it.
\* The goroutine started by NewCacheManager is not affected.
Discard ==
  /\ ~rt.discarded
  /\ Exclusive
  /\ rt' = [rt EXCEPT !.discarded = TRUE]
  /\ ret' = [op |-> "Discard"]
  /\ cbLog' = <<>>
  /\ removed' = <<>>
  /\ UNCHANGED <<impl, now, cache, hits, misses, evictionCallback, order,
                 lookups, hist, svc, std, mon, prv, tc>>

InitRuntime ==
  /\ impl = "timestamp"
  /\ NewCacheManager
  /\ svc = Nil /\ std = Nil /\ mon = Nil /\ NoProvider
  /\ rt = NewRuntime

NextRuntime ==
  \/ \E t \in Threads, p \in Pairs : GetRLock(t, p)
  \/ \E t \in Threads : GetLoad(t)
  \/ \E t \in Threads : GetStore(t)
  \/ \E t \in Threads : GetPut(t)
  \/ \E t \in Threads : GetReturn(t)
  \/ (~rt.discarded /\ Exclusive /\
        \E p \in Pairs : Set(p.ContentType, p.Content, ValueFor(p), SizeFor(p)))
  \/ (Exclusive /\ cleanupExpired)
  \/ Discard

SpecRuntime == InitRuntime /\ [][NextRuntime]_vars

\* ------------------------------------------ claims on the goroutines
\* C27: the sweep has an explicit shutdown, so that once the owner has shut
\* the manager down and dropped it the sweep performs no further pass.
C27_SweepStopsWithManager ==
  [][rt.discarded => ret'.op # "cleanupExpired"]_vars

\* C28: no two goroutines are at a write of the map or of a counter at the
\* same time, and no counter increment is lost: when no lookup is running,
\* hits + misses is the number of lookups made.
C28_NoWriteUnderReadLock ==
  /\ Cardinality({t \in Threads : rt.thr[t].pc \in {"store", "put"}}) <= 1
  /\ Exclusive => hits + misses = lookups

\* ------------------------------------------------ Set on a cached key
\* C35: Set for a key that is already cached replaces the entry in place: no
\* entry is evicted, no eviction callback runs and the cached keys stay the
\* same, also when the cache is at capacity.
C35_OverwriteInPlace ==
  [][(ret'.op = "Set" /\ KeyOf(ret'.item) \in DOMAIN cache) =>
       (removed' = <<>> /\ cbLog' = <<>> /\ DOMAIN cache' = DOMAIN cache)]_vars

\* ------------------------------------ ContentFilterHandler (api/content_filter.go)
\* the variables a handler leaves alone beside the service and its answer
handlerFrame ==
  <<impl, now, cache, hits, misses, evictionCallback, cbLog, removed, order,
    lookups, hist, std, mon, prv, tc, rt>>

\* UpdateConfig: a request whose level is absent or 0 fails the binding and is
\* answered 400; otherwise the handler's service is replaced by a new one
UpdateConfig(level) ==
  /\ IF level = 0
     THEN /\ svc' = svc
          /\ ret' = [op |-> "UpdateConfig", level |-> level, status |-> 400]
     ELSE /\ svc' = NewContentFilterService(level)
          /\ ret' = [op |-> "UpdateConfig", level |-> level, status |-> 200]
  /\ UNCHANGED handlerFrame

\* CheckContent: an empty content fails the binding, otherwise Filter
CheckContent(content, contentType) ==
  IF content = <<>>
  THEN /\ ret' = [op |-> "CheckContent", status |-> 400]
       /\ UNCHANGED <<handlerFrame, svc>>
  ELSE Filter(content, contentType)

\* NewContentFilterHandler: a service at LevelMedium
InitHandler ==
  /\ impl = "timestamp"
  /\ NewCacheManager
  /\ svc = NewContentFilterService(LevelMedium)
  /\ std = Nil
  /\ mon = Nil
  /\ NoProvider /\ NoRuntime

\* the four routes of the handler
NextHandler ==
  \/ \E content \in Texts, contentType \in FilterTypes :
       CheckContent(content, contentType)
  \/ \E level \in Levels : UpdateConfig(level)
  \/ \E words \in WordLists : LoadSensitiveWords(words)
  \/ \E pattern \in PatternInputs : AddRegexPattern(pattern)

SpecHandler == InitHandler /\ [][NextHandler]_vars

\* C36: an accepted UpdateConfig changes the level and nothing else: the
\* sensitive words and the patterns loaded before remain in force.
C36_UpdateConfigKeepsRules ==
  [][(ret'.op = "UpdateConfig" /\ ret'.status = 200) =>
       /\ svc'.level = ret'.level
       /\ svc'.sensitiveWords = svc.sensitiveWords
       /\ svc'.regexPatterns = svc.regexPatterns]_vars

\* C37: two Filter calls in a row with the same content and content type, on
\* the same words, patterns and level and with the same analyzer response,
\* return the same FilterResult, Reason included.
C37_FilterDeterministic ==
  [][(ret.op = "Filter" /\ ret'.op = "Filter" /\ svc' = svc
      /\ ret'.content = ret.content /\ ret'.contentType = ret.contentType
      /\ ret'.analysis = ret.analysis)
       => ret'.result = ret.result]_vars

\* ------------------------------- goroutines on one ContentFilterService
\* LoadSensitiveWords holds s.mu.Lock() over its loop, which runs word by
\* word; AddRegexPattern holds it for the append.  Filter runs in three
\* stages: the word scan and the pattern scan each under s.mu.RLock(), then
\* the analyzer.  A stage under RLock only reads, so it is one step.

\* the contents concurrent callers submit
ScanTexts == {<<"a", "b">>, <<"B", "a">>}

\* rt here: mu is TRUE while a goroutine holds s.mu in write mode; load is
\* the running LoadSensitiveWords (the words still to insert, its argument and
\* the word set it found); thr the Filter calls; raced and torn record
\* (history) a scan made while the lock was held in write mode, and a scan
\* that saw some but not all words of a batch.
NewFilterRuntime ==
  [mu |-> FALSE,
   load |-> [pc |-> "idle", words |-> <<>>, batch |-> <<>>, before |-> {}],
   thr |-> [t \in Threads |-> [pc |-> "idle", content |-> <<>>]],
   raced |-> FALSE, torn |-> FALSE]

filterFrame ==
  <<impl, now, cache, hits, misses, evictionCallback, cbLog, removed, order,
    lookups, hist, std, mon, prv, tc>>

\* an RLock that is granted while the lock is held in write mode
mayRLock_always == TRUE

\* s.mu.RLock() is granted
mayRLock == ~rt.mu

\* s.mu.Lock() is granted (readers hold the lock within one step only)
mayLock == ~rt.mu

\* what a scan made now adds to the history
Scanned ==
  [rt EXCEPT !.raced = @ \/ rt.mu,
             !.torn = @ \/ (rt.mu /\ svc.sensitiveWords
                                       \notin {rt.load.before,
                                               addWords(rt.load.before,
                                                        rt.load.batch)})]

\* LoadSensitiveWords: s.mu.Lock()
LoadLock(words) ==
  /\ rt.load.pc = "idle"
  /\ mayLock
  /\ rt' = [rt EXCEPT !.mu = TRUE,
                      !.load = [pc |-> "loop", words |-> words,
                                batch |-> words,
                                before |-> svc.sensitiveWords]]
  /\ UNCHANGED <<filterFrame, svc, ret>>

\* LoadSensitiveWords: one iteration of the loop
LoadWord ==
  /\ rt.load.pc = "loop"
  /\ rt.load.words # <<>>
  /\ svc' = [svc EXCEPT
               !.sensitiveWords = addWords(@, <<Head(rt.load.words)>>),
               !.loaded = @ \cup {Head(rt.load.words)}]
  /\ rt' = [rt EXCEPT !.load.words = Tail(@)]
  /\ UNCHANGED <<filterFrame, ret>>

\* LoadSensitiveWords: the return, with the deferred Unlock
LoadUnlock ==
  /\ rt.load.pc = "loop"
  /\ rt.load.words = <<>>
  /\ rt' = [rt EXCEPT !.mu = FALSE,
                      !.load = NewFilterRuntime.load]
  /\ ret' = [op |-> "LoadSensitiveWords", words |-> rt.load.batch]
  /\ UNCHANGED <<filterFrame, svc>>

\* AddRegexPattern: the compile error returns without the lock, the append
\* needs it
AddPatternLocked(pattern) ==
  /\ Compile(pattern) \/ mayLock
  /\ AddRegexPattern(pattern)

\* what Filter returns from an outcome of FilterOutcomes
FilterReturn(content, contentType, o) ==
  [op |-> "Filter", content |-> content, contentType |-> contentType,
   stages |-> o.stages, analysis |-> o.analysis, result |-> o.result,
   err |-> o.err]

\* Filter, stage 1: checkSensitiveWords under RLock
ScanWords(t, content) ==
  /\ rt.thr[t].pc = "idle"
  /\ mayRLock
  /\ IF checkSensitiveWords(content) # {}
     THEN /\ \E o \in FilterOutcomes(content, TextContent) :
               ret' = FilterReturn(content, TextContent, o)
          /\ rt' = Scanned
     ELSE /\ ret' = ret
          /\ rt' = [Scanned EXCEPT !.thr[t] =
                      [pc |-> "patterns", content |-> content]]
  /\ UNCHANGED <<filterFrame, svc>>

\* Filter, stage 2: checkRegexPatterns under RLock
ScanPatterns(t) ==
  /\ rt.thr[t].pc = "patterns"
  /\ mayRLock
  /\ IF checkRegexPatterns(rt.thr[t].content) # {}
     THEN /\ \E pattern \in checkRegexPatterns(rt.thr[t].content) :
               ret' = FilterReturn(rt.thr[t].content, TextContent,
                        [stages |-> <<"words", "patterns">>, analysis |-> {},
                         err |-> FALSE,
                         result |-> {FilterResult(FALSE, 80,
                                       {<<"pattern_match", TRUE>>}, <<>>,
                                       <<"Matches forbidden pattern: ",
                                         pattern>>)}])
          /\ rt' = [rt EXCEPT !.raced = @ \/ rt.mu,
                              !.thr[t] = NewFilterRuntime.thr[t]]
     ELSE /\ ret' = ret
          /\ rt' = [rt EXCEPT !.raced = @ \/ rt.mu, !.thr[t].pc = "ai"]
  /\ UNCHANGED <<filterFrame, svc>>

\* Filter, stage 3: the analyzer and shouldBlock
AnalyzeStage(t) ==
  /\ rt.thr[t].pc = "ai"
  /\ \E ai \in Analyze(rt.thr[t].content, TextContent) :
       ret' = FilterReturn(rt.thr[t].content, TextContent,
                [stages |-> <<"words", "patterns", "ai">>, analysis |-> {ai},
                 err |-> FilterAI(ai).err, result |-> FilterAI(ai).result])
  /\ rt' = [rt EXCEPT !.thr[t] = NewFilterRuntime.thr[t]]
  /\ UNCHANGED <<filterFrame, svc>>

InitFilterRuntime ==
  /\ impl = "timestamp"
  /\ NewCacheManager
  /\ svc = NewContentFilterService(LevelMedium)
  /\ std = Nil /\ mon = Nil /\ NoProvider
  /\ rt = NewFilterRuntime

NextFilterRuntime ==
  \/ \E words \in WordLists : LoadLock(words)
  \/ LoadWord
  \/ LoadUnlock
  \/ \E pattern \in PatternInputs : AddPatternLocked(pattern)
  \/ \E t \in Threads, content \in ScanTexts : ScanWords(t, content)
  \/ \E t \in Threads : ScanPatterns(t)
  \/ \E t \in Threads : AnalyzeStage(t)

SpecFilterRuntime == InitFilterRuntime /\ [][NextFilterRuntime]_vars

\* C34: no scan of the word set or of the pattern list is made while another
\* goroutine holds the lock to write them, and the word scan of a Filter call
\* sees none or all of the words of a LoadSensitiveWords batch.
C34_LoadAtomic == ~rt.raced /\ ~rt.torn

\* a batch of two words has inserted its first word while a Filter call that
\* has scanned the words is still running
C34_Witness ==
  /\ rt.load.pc = "loop"
  /\ Len(rt.load.batch) = 2
  /\ Len(rt.load.words) = 1
  /\ \E t \in Threads : rt.thr[t].pc # "idle"


=============================================================================
